---- MODULE Spec2Model ----
(***************************************************************************)
(* Live Session Coordinator and State Store of the trick-or-treat          *)
(* dashboard server (src/app.py).                                          *)
(*                                                                         *)
(* The server is a pool of worker processes that share nothing but the     *)
(* file data/live_mode.json.  Every worker handles one request at a time;  *)
(* a handler is modelled at the granularity of its file-system calls       *)
(* (read of the canonical file, open/truncate of the temporary file, the   *)
(* flush that close() performs, os.replace), which is where workers can    *)
(* interleave.  Purely local computation between two file-system calls is  *)
(* folded into the call that precedes it.                                  *)
(*                                                                         *)
(* Time is the wall clock in whole seconds, read by datetime.now().        *)
(***************************************************************************)
EXTENDS Integers, Sequences, FiniteSets, TLC

\* ------------------------------------------------------------------ bounds
NWorkers == 2
MaxTime == 1
MaxReq == 2
MaxFaults == 1
MaxLineLen == 3
MaxLines == 2
MaxPresses == 2
MaxBudget == 3
MaxRetryAfter == 2
MaxLongBudget == 10
MaxDeviceLines == 2
MaxQueue == 3
MaxForeign == 1
MaxClicks == 3

Workers == 1..NWorkers

\* ------------------------------------------------------------------ values
\* Python None, for the owner field and for the request owner.
NULL == "null"
\* Client identities; a request names one or none (line 197).  The empty
\* string is falsy like None and is met in a hand-edited file only.
Owners == {"A", "B"}
ReqOwners == Owners \cup {NULL}

\* start_time as stored: None, a string that is no ISO-8601 time (only a
\* hand-edited file holds one), or datetime.isoformat() of a clock value.
NoneT == <<"none", 0>>
BadT == <<"str", 0>>
isoformat(t) == <<"iso", t>>
IsIso(s) == s[1] = "iso"
\* datetime.fromisoformat: defined on ISO strings only (raises otherwise).
fromisoformat(s) == s[2]

\* Python truthiness of the values the code tests.
Truthy(o) == o \notin {NULL, ""}
TruthyT(s) == s # NoneT

DefaultState == [enabled |-> FALSE, start_time |-> NoneT, owner |-> NULL]

\* ------------------------------------------------------------- file system
\* Length in characters of the JSON text json.dump writes for a state.
JsonLen(st) ==
    40 + (IF st.enabled THEN 4 ELSE 5)
       + (IF st.start_time = NoneT THEN 4 ELSE IF IsIso(st.start_time) THEN 28 ELSE 5)
       + (IF st.owner = NULL THEN 4 ELSE IF st.owner = "" THEN 2 ELSE 3)

Missing == [kind |-> "missing", len |-> 0, st |-> DefaultState]
Unreadable == [kind |-> "unreadable", len |-> 0, st |-> DefaultState]
Empty == [kind |-> "empty", len |-> 0, st |-> DefaultState]
Garbage(n) == [kind |-> "garbage", len |-> n, st |-> DefaultState]
MkJson(st) == [kind |-> "json", len |-> JsonLen(st), st |-> st]

\* A json.dump that leaves the owner key out.
Dumped_NoOwner(state) ==
    MkJson([enabled |-> state.enabled, start_time |-> state.start_time,
            owner |-> NULL])

\* What json.dump in save_live_mode_to_file serialises.
Dumped(state) ==
    MkJson([enabled |-> state.enabled, start_time |-> state.start_time,
            owner |-> state.owner])

\* A write of text `new` at offset 0 of a file holding `old`, without
\* truncation: a shorter text leaves the tail of the old one behind.
Overwrite(old, new) ==
    IF new.len >= old.len THEN new ELSE Garbage(old.len)

VARIABLES
    file,     \* content of data/live_mode.json
    tmp,      \* content of data/live_mode.json.tmp
    fd,       \* per worker: where its open temporary-file descriptor points
    now,      \* the wall clock
    pc,       \* per worker: position in load/save
    site,     \* per worker: the call site of the running load or save
    req,      \* per worker: the request being handled
    sv,       \* per worker: the state a running save writes
    cur,      \* per worker: set_live's `current`
    newst,    \* per worker: set_live's `new_state`
    pend,     \* per worker: the response under construction
    resp,     \* per worker: the response returned last
    cache,    \* per worker: the in-memory dict live_mode
    snap,     \* per worker: canonical file when set_live's first load returned
    cache0,   \* per worker: live_mode when the request began
    solo,     \* per worker: no other worker has run since its request began
    nreq,     \* requests taken so far
    nfault,   \* disk faults so far
    tdec,     \* per worker: clock value when set_live chose its branch
    wroteLive, \* per worker: the save of line 244 changed the canonical
              \* file, through a descriptor opened on the temporary file
    init0,    \* the initial canonical file
    lastw,    \* the worker whose os.replace installed the canonical file (0: none)
    dfile,    \* content of data/trickortreat_data.json
    data,     \* per worker: the list `data` of a handler of the event log
    event_callback_list, \* decoder: which entries of the list are callables
    heart_callback,      \* decoder: a heartbeat callback is registered
    alive,    \* decoder: the reader thread is running
    line,     \* decoder: the line handled last
    invoked,  \* decoder: the callbacks handle_line invoked for that line
    raised,   \* decoder: the exception that left handle_line for that line
    nlines,   \* decoder: lines received so far
    local_backup, \* bridge: the constructor argument local_backup
    qfile,    \* bridge: content of data/trickortreat_data_backup.json
    press,    \* bridge: the input of the last handle_button_press
    calls,    \* bridge: the remote calls that press made
    result,   \* bridge: what the remote call of that press returned
    appended, \* bridge: the records that press appended to the local file
    npress,   \* bridge: presses handled so far
    max_retries, \* client: the retry budget of the running _make_request
    attempt,  \* client: the loop variable of _make_request
    responses, \* client: what each session.request of the call met
    delays,   \* client: the arguments of time.sleep, in tenths of a second
    returned, \* client: "running", or what _make_request returned
    is_running, \* monitor: the stop flag self.is_running
    live_was_enabled_by_me, \* monitor: self._live_was_enabled_by_me
    rpc,      \* monitor: position of the main thread around run()
    health_attempt, \* monitor: `attempt` of the startup loop of run()
    startup_enabled, \* monitor: `enabled` of the startup loop of run()
    srv,      \* monitor: the session record the server holds
    net,      \* monitor: "flaky", or "stable" once every call gets through
    stop_requested, \* monitor: exit_app has been called
    last_round, \* monitor: what the last startup round did
    last_check, \* monitor: what the last periodic health check did
    bye,      \* monitor: what the shutdown protocol did
    device_lines, \* monitor: device lines the event loop has handled
    late_lines, \* monitor: device lines handled after exit_app was called
    spc,      \* sync: position in sync_pending_data
    all_data, \* sync: the list `all_data`
    submitted, \* sync: the batch handed to upload_data_batch
    upload,   \* sync: what upload_data_batch returned
    q0,       \* sync: the local file as sync_pending_data read it
    wrote,    \* sync: the lists sync_pending_data wrote back
    foreign,  \* sync: records another process appended during the call
    current_data, \* integration: the list self.current_data
    data_file, \* integration: content of data/trickortreat_data.json
    last_written, \* integration: the list json.dump wrote last, if any
    lcd,      \* integration: position of the main thread in load_current_data
    loaded,   \* integration: the list load_current_data has read
    base,     \* integration: length of the list load_current_data assigned
    added,    \* integration: count presses since that assignment
    undone,   \* integration: undo presses since then that found an entry
    nclicks,  \* integration: button callbacks begun so far
    cb        \* integration: the callback that holds data_lock, if any

serverVars == <<file, tmp, fd, now, pc, site, req, sv, cur, newst, pend, resp,
                cache, snap, cache0, solo, nreq, nfault, tdec, wroteLive, init0,
                lastw, dfile, data>>
decVars == <<event_callback_list, heart_callback, alive, line, invoked, raised,
             nlines>>
brVars == <<local_backup, qfile, press, calls, result, appended, npress>>
rcVars == <<max_retries, attempt, responses, delays, returned>>
runVars == <<is_running, live_was_enabled_by_me, rpc, health_attempt,
             startup_enabled, srv, net, stop_requested, last_round,
             last_check, bye, device_lines, late_lines>>
syncVars == <<spc, all_data, submitted, upload, q0, wrote, foreign>>
intVars == <<current_data, data_file, last_written, lcd, loaded, base, added,
             undone, nclicks, cb>>
clientVars == <<decVars, brVars, rcVars, runVars, syncVars, intVars>>
vars == <<serverVars, clientVars>>

logVars == <<dfile, data>>

\* The configured key, and the values an X-API-Key header may have (NULL:
\* the header is absent).
API_KEY == "key"
Keys == {NULL, "", "bad", API_KEY}

\* An entry of the event log, and the lists a batch upload may carry.
Entry(t) == [timestamp |-> t, count |-> 1, year |-> "Y"]
Batches == {<<>>, <<Entry(0)>>}

NoReq == [op |-> "none", desired |-> FALSE, owner |-> NULL, key |-> NULL,
          hasbody |-> FALSE, batch |-> <<>>]
\* The requests of the live-session endpoints, past the key check.
Requests ==
    [op : {"status", "health"}, desired : {FALSE}, owner : {NULL},
     key : {NULL}, hasbody : {FALSE}, batch : {<<>>}]
    \cup [op : {"set"}, desired : BOOLEAN, owner : ReqOwners,
          key : {API_KEY}, hasbody : {TRUE}, batch : {<<>>}]

\* The endpoints behind require_api_key, and their requests with any key.
MutOps == {"set", "add", "undo", "batch"}
MutRequests ==
    [op : {"set"}, desired : BOOLEAN, owner : {"A"}, key : Keys,
     hasbody : {TRUE}, batch : {<<>>}]
    \cup [op : {"add", "undo"}, desired : {FALSE}, owner : {NULL}, key : Keys,
          hasbody : {FALSE}, batch : {<<>>}]
    \cup [op : {"batch"}, desired : {FALSE}, owner : {NULL}, key : Keys,
          hasbody : {TRUE}, batch : Batches]
    \cup [op : {"batch"}, desired : {FALSE}, owner : {NULL}, key : Keys,
          hasbody : {FALSE}, batch : {<<>>}]

\* data/trickortreat_data.json: absent, truncated, unparseable, or a list.
DMissing == [kind |-> "missing", list |-> <<>>]
DEmpty == [kind |-> "empty", list |-> <<>>]
DGarbage == [kind |-> "garbage", list |-> <<>>]
DJson(l) == [kind |-> "json", list |-> l]
InitData == {DMissing, DJson(<<>>), DJson(<<Entry(0)>>)}

NoPend == [live |-> FALSE, error |-> "none", code |-> 0, r1 |-> "none",
           s1 |-> NoneT, o1 |-> NULL]
NoResp == [kind |-> "none", live |-> FALSE, elapsed |-> 0, error |-> "none",
           code |-> 0, at |-> 0, r1 |-> "none", r2 |-> "none", s1 |-> NoneT,
           o1 |-> NULL, st |-> DefaultState]

\* Hand-edited or damaged files the program may find at start, besides the
\* records it writes itself.
InitStates ==
    {DefaultState,
     [enabled |-> TRUE, start_time |-> NoneT, owner |-> "A"],
     [enabled |-> TRUE, start_time |-> BadT, owner |-> ""],
     [enabled |-> TRUE, start_time |-> isoformat(0), owner |-> "A"]}
InitFiles == {Missing, Unreadable, Garbage(1)} \cup {MkJson(s) : s \in InitStates}

LiveInit ==
    /\ file \in InitFiles
    /\ init0 = file
    /\ tmp = Missing
    /\ fd = [w \in Workers |-> "none"]
    /\ now = 0
    /\ pc = [w \in Workers |-> "idle"]
    /\ site = [w \in Workers |-> "none"]
    /\ req = [w \in Workers |-> NoReq]
    /\ sv = [w \in Workers |-> DefaultState]
    /\ cur = [w \in Workers |-> DefaultState]
    /\ newst = [w \in Workers |-> DefaultState]
    /\ pend = [w \in Workers |-> NoPend]
    /\ resp = [w \in Workers |-> NoResp]
    /\ cache = [w \in Workers |-> DefaultState]
    /\ snap = [w \in Workers |-> Missing]
    /\ cache0 = [w \in Workers |-> DefaultState]
    /\ solo = [w \in Workers |-> FALSE]
    /\ nreq = 0
    /\ nfault = 0
    /\ tdec = [w \in Workers |-> 0]
    /\ wroteLive = [w \in Workers |-> FALSE]
    /\ lastw = 0

\* A decoder that has no callbacks and has received nothing.
DecQuiet ==
    /\ event_callback_list = <<>>
    /\ heart_callback = FALSE
    /\ alive = TRUE
    /\ line = <<>>
    /\ invoked = <<>>
    /\ raised = "none"
    /\ nlines = 0

\* The local backup file: absent, unparseable, or a list of records.
QMissing == [kind |-> "missing", list |-> <<>>]
QGarbage == [kind |-> "garbage", list |-> <<>>]
QJson(l) == [kind |-> "json", list |-> l]

\* A bridge that has handled nothing.
BrQuiet ==
    /\ local_backup = TRUE
    /\ qfile = QMissing
    /\ press = <<>>
    /\ calls = <<>>
    /\ result = "none"
    /\ appended = <<>>
    /\ npress = 0

\* A client that makes no call.
RcQuiet ==
    /\ max_retries = 0
    /\ attempt = 0
    /\ responses = <<>>
    /\ delays = <<>>
    /\ returned = "none"

\* What a startup round, a periodic check and the shutdown leave behind
\* before they have run.
NoRound == [probe |-> FALSE, sent |-> 0, answered |-> FALSE,
            desired |-> FALSE, owner |-> NULL]
NoCheck == [health |-> FALSE, status |-> "none", mine |-> FALSE, sent |-> 0,
            desired |-> FALSE, owner |-> NULL]
NoBye == [sent |-> 0, owner |-> NULL, turned_off |-> FALSE, victim |-> NULL,
          answer |-> "none", log |-> "silent"]

\* No monitor object exists.
RunQuiet ==
    /\ is_running = FALSE
    /\ live_was_enabled_by_me = FALSE
    /\ rpc = "none"
    /\ health_attempt = 0
    /\ startup_enabled = FALSE
    /\ srv = DefaultState
    /\ net = "flaky"
    /\ stop_requested = FALSE
    /\ last_round = NoRound
    /\ last_check = NoCheck
    /\ bye = NoBye
    /\ device_lines = 0
    /\ late_lines = 0

\* sync_pending_data is not called.
SyncQuiet ==
    /\ spc = "none"
    /\ all_data = <<>>
    /\ submitted = <<>>
    /\ upload = "none"
    /\ q0 = QMissing
    /\ wrote = <<>>
    /\ foreign = <<>>

\* An integration object that was never built.
IntQuiet ==
    /\ current_data = <<>>
    /\ data_file = DMissing
    /\ last_written = DMissing
    /\ lcd = "none"
    /\ loaded = <<>>
    /\ base = 0
    /\ added = 0
    /\ undone = 0
    /\ nclicks = 0
    /\ cb = "idle"

ClientQuiet ==
    DecQuiet /\ BrQuiet /\ RcQuiet /\ RunQuiet /\ SyncQuiet /\ IntQuiet

\* The server with an untouched event log.
Init ==
    /\ LiveInit
    /\ dfile = DMissing
    /\ data = [w \in Workers |-> <<>>]
    /\ ClientQuiet

\* The server with an event log of earlier requests.
LogInit ==
    /\ LiveInit
    /\ dfile \in InitData
    /\ data = [w \in Workers |-> <<>>]
    /\ ClientQuiet

\* A server that receives nothing.
ServerQuiet ==
    /\ LiveInit
    /\ file = Missing
    /\ dfile = DMissing
    /\ data = [w \in Workers |-> <<>>]


\* ------------------------------------------------------------ set_live rules
W(f, w, v) == [f EXCEPT ![w] = v]

\* The comparison of line 219 inverted.
OwnerConflict_Inverted(current_owner, owner) ==
    Truthy(current_owner) /\ Truthy(owner) /\ current_owner = owner

\* app.py line 219: the disable is refused.
OwnerConflict(current_owner, owner) ==
    Truthy(current_owner) /\ Truthy(owner) /\ current_owner # owner

\* An enable that forgets line 213, and one that forgets line 212.
EnabledState_KeepsOwner(current, t, owner) ==
    [current EXCEPT !.enabled = TRUE, !.start_time = isoformat(t)]

EnabledState_NoStart(current, t, owner) ==
    [current EXCEPT !.enabled = TRUE, !.owner = owner]

\* app.py lines 210-214: new_state of an enable decided at clock value t.
EnabledState(current, t, owner) ==
    [current EXCEPT !.enabled = TRUE, !.start_time = isoformat(t),
                    !.owner = owner]

\* A disable that forgets line 230.
DisabledState_KeepsOwner(current) ==
    [current EXCEPT !.enabled = FALSE, !.start_time = NoneT]

\* app.py lines 227-231: new_state of a disable.
DisabledState(current) ==
    [current EXCEPT !.enabled = FALSE, !.start_time = NoneT, !.owner = NULL]

\* Line 209 without its test of the current state.
Branch_AlwaysEnable(desired, current, owner) ==
    IF desired THEN "enable"
    ELSE IF current.enabled
         THEN IF OwnerConflict(current.owner, owner) THEN "reject" ELSE "disable"
         ELSE "noop"

\* app.py lines 209, 216, 219, 233: which branch set_live takes.
Branch(desired, current, owner) ==
    IF desired /\ ~current.enabled THEN "enable"
    ELSE IF ~desired /\ current.enabled
         THEN IF OwnerConflict(current.owner, owner) THEN "reject" ELSE "disable"
         ELSE "noop"

\* get_elapsed_seconds, lines 162-168, on the state its load returned.
ElapsedOf(state, t) ==
    IF ~state.enabled \/ ~TruthyT(state.start_time) THEN 0
    ELSE IF IsIso(state.start_time) THEN t - fromisoformat(state.start_time)
    ELSE 0

\* load_live_mode_from_file lines 75-80: start_time after validation.
Validated(state) ==
    IF TruthyT(state.start_time) /\ ~IsIso(state.start_time)
    THEN [state EXCEPT !.start_time = NoneT]
    ELSE state

\* load_live_mode_from_file line 82: the record needs a start time.
NeedsRepair(state) == state.enabled /\ ~TruthyT(state.start_time)

MkPend(live, error, code, how, st) ==
    [live |-> live, error |-> error, code |-> code, r1 |-> how,
     s1 |-> st.start_time, o1 |-> st.owner]

\* ------------------------------------------------------- returns of a load
\* set_live from line 206 on, with `current` = st just loaded; f is the
\* canonical file as this step leaves it.
Decide(w, st, how, f) ==
    LET b == Branch(req[w].desired, st, req[w].owner)
        ns == IF b = "enable" THEN EnabledState(st, now, req[w].owner)
              ELSE IF b = "disable" THEN DisabledState(st)
              ELSE st
    IN  /\ cur' = W(cur, w, st)
        /\ snap' = W(snap, w, f)
        /\ tdec' = W(tdec, w, now)
        /\ newst' = W(newst, w, ns)
        /\ IF b \in {"enable", "disable"}
           THEN /\ sv' = W(sv, w, ns)
                /\ pc' = W(pc, w, "save_open")
                /\ site' = W(site, w, "set244")
                /\ UNCHANGED pend
           ELSE /\ pend' = W(pend, w,
                     MkPend(st.enabled, IF b = "reject" THEN "conflict" ELSE "none",
                            200, how, st))
                /\ pc' = W(pc, w, "load")
                /\ site' = W(site, w, "elapsed")
                /\ UNCHANGED sv
        /\ UNCHANGED <<resp, cache>>

\* The load called at site[w] returns st (how: what the load did).
LoadReturn(w, st, how, f) ==
    CASE site[w] = "set202" -> Decide(w, st, how, f)
      [] site[w] \in {"status181", "verify258"} ->
            /\ pend' = W(pend, w, MkPend(st.enabled, "none", 200, how, st))
            /\ pc' = W(pc, w, "load")
            /\ site' = W(site, w, "elapsed")
            /\ UNCHANGED <<sv, cur, newst, resp, cache, snap, tdec>>
      [] site[w] = "health552" ->
            /\ resp' = W(resp, w,
                  [kind |-> "health", live |-> st.enabled, elapsed |-> 0,
                   error |-> "none", code |-> 200, at |-> now, r1 |-> how,
                   r2 |-> "none", s1 |-> st.start_time, o1 |-> st.owner,
                   st |-> st])
            /\ pc' = W(pc, w, "idle")
            /\ site' = W(site, w, "none")
            /\ UNCHANGED <<sv, cur, newst, pend, cache, snap, tdec>>
      [] site[w] = "elapsed" ->
            /\ resp' = W(resp, w,
                  [kind |-> req[w].op, live |-> pend[w].live,
                   elapsed |-> ElapsedOf(st, now), error |-> pend[w].error,
                   code |-> pend[w].code, at |-> now, r1 |-> pend[w].r1,
                   r2 |-> how, s1 |-> pend[w].s1, o1 |-> pend[w].o1,
                   st |-> st])
            /\ pend' = W(pend, w, NoPend)
            /\ pc' = W(pc, w, "idle")
            /\ site' = W(site, w, "none")
            /\ UNCHANGED <<sv, cur, newst, cache, snap, tdec>>

\* A load without the except clause of line 96: the exception leaves the
\* handler, and the framework answers 500.
LoadOnException_Raise(w, why, f) ==
    /\ resp' = W(resp, w,
          [kind |-> req[w].op, live |-> FALSE, elapsed |-> 0,
           error |-> "unhandled", code |-> 500, at |-> now, r1 |-> why,
           r2 |-> "none", s1 |-> NoneT, o1 |-> NULL,
           st |-> DefaultState])
    /\ pend' = W(pend, w, NoPend)
    /\ pc' = W(pc, w, "idle")
    /\ site' = W(site, w, "none")
    /\ UNCHANGED <<sv, cur, newst, cache, snap, tdec>>

\* load_live_mode_from_file lines 96-103: any exception yields the default.
LoadOnException(w, why, f) == LoadReturn(w, DefaultState, why, f)

\* A save called at site[w] returned (ok) or raised (~ok).
SaveDone(w, ok, f) ==
    IF site[w] = "set244"
    THEN IF ok
         THEN \* lines 254-258
              /\ cache' = W(cache, w, newst[w])
              /\ pc' = W(pc, w, "load")
              /\ site' = W(site, w, "verify258")
              /\ UNCHANGED <<sv, cur, newst, pend, resp, snap, tdec>>
         ELSE \* lines 245-251
              /\ pend' = W(pend, w,
                     MkPend(cur[w].enabled, "save", 500, "none", cur[w]))
              /\ pc' = W(pc, w, "load")
              /\ site' = W(site, w, "elapsed")
              /\ UNCHANGED <<sv, cur, newst, resp, cache, snap, tdec>>
    ELSE IF ok
         THEN LoadReturn(w, sv[w], IF sv[w].enabled THEN "repaired" ELSE "created", f)
         ELSE LoadOnException(w, "savefail", f)

\* ------------------------------------------------------------ require_api_key
\* A check that lets every request through.
Authorized_Any(api_key) == TRUE

\* line 130: api_key and api_key == API_KEY.
Authorized(api_key) == Truthy(api_key) /\ api_key = API_KEY

\* A response that a handler builds without reading the live-session record.
Answer(kind, error, code) ==
    [NoResp EXCEPT !.kind = kind, !.error = error, !.code = code]

\* upload_batch lines 455-459, before the log is read: request.get_json()
\* without a JSON body makes body.get raise (answer 500, line 474); an empty
\* or absent list is answered 400.
BatchBody(r) ==
    IF ~r.hasbody THEN Answer("batch", "exception", 500)
    ELSE IF r.batch = <<>> THEN Answer("batch", "nodata", 400)
    ELSE NoResp

\* ---------------------------------------------------------------- actions
\* A worker takes a request off the socket.  Workers are interchangeable
\* (nothing reads a worker's cache), so the request goes to the first idle one.
Start(w, r) ==
    LET denied == r.op \in MutOps /\ ~Authorized(r.key)
        early == IF denied THEN Answer("denied", "unauthorized", 401)
                 ELSE IF r.op = "batch" THEN BatchBody(r)
                 ELSE NoResp
        done == early # NoResp
    IN
    /\ pc[w] = "idle"
    /\ \A y \in Workers : y < w => pc[y] # "idle"
    /\ nreq < MaxReq
    /\ nreq' = nreq + 1
    /\ pc' = W(pc, w, IF done THEN "idle"
                      ELSE IF r.op \in {"add", "undo", "batch"} THEN "dload"
                      ELSE "load")
    /\ site' = W(site, w, CASE done -> "none"
                            [] r.op = "status" -> "status181"
                            [] r.op = "health" -> "health552"
                            [] r.op = "set" -> "set202"
                            [] OTHER -> "none")
    /\ req' = [x \in Workers |-> IF x = w THEN r
                                 ELSE IF pc[x] = "idle" THEN NoReq ELSE req[x]]
    /\ solo' = [x \in Workers |->
                  IF x = w THEN \A y \in Workers \ {w} : pc[y] = "idle" ELSE FALSE]
    /\ resp' = [x \in Workers |-> IF x = w THEN early ELSE NoResp]
    /\ cur' = [x \in Workers |-> IF pc[x] = "idle" THEN DefaultState ELSE cur[x]]
    /\ newst' = [x \in Workers |-> IF pc[x] = "idle" THEN DefaultState ELSE newst[x]]
    /\ sv' = [x \in Workers |-> IF pc[x] = "idle" THEN DefaultState ELSE sv[x]]
    /\ snap' = [x \in Workers |-> IF pc[x] = "idle" THEN Missing ELSE snap[x]]
    /\ cache0' = [x \in Workers |-> IF pc[x] = "idle" THEN cache[x] ELSE cache0[x]]
    /\ tdec' = [x \in Workers |-> IF pc[x] = "idle" THEN 0 ELSE tdec[x]]
    /\ wroteLive' = [x \in Workers |-> IF pc[x] = "idle" THEN FALSE ELSE wroteLive[x]]
    /\ data' = [x \in Workers |-> IF pc[x] = "idle" THEN <<>> ELSE data[x]]
    /\ UNCHANGED <<file, tmp, fd, now, pend, cache, nfault, init0, lastw, dfile>>
    /\ UNCHANGED clientVars

Tick ==
    /\ now < MaxTime
    /\ now' = now + 1
    /\ UNCHANGED <<file, tmp, fd, pc, site, req, sv, cur, newst, pend, resp,
                   cache, snap, cache0, solo, nreq, nfault, tdec, wroteLive, init0, lastw>>
    /\ UNCHANGED <<logVars, clientVars>>

\* load_live_mode_from_file, lines 65-86: the file exists and parses, and
\* needs no repair.
LoadOk(w) ==
    /\ pc[w] = "load"
    /\ file.kind = "json"
    /\ ~NeedsRepair(Validated(file.st))
    /\ LoadReturn(w, Validated(file.st), "ok", file)
    /\ UNCHANGED <<file, tmp, fd, now, req, cache0, solo, nreq, nfault, wroteLive, init0, lastw>>
    /\ UNCHANGED <<logVars, clientVars>>

\* A repair that stamps the state it returns and forgets line 85.
LoadRepair_NoSave(w) ==
    /\ pc[w] = "load"
    /\ file.kind = "json"
    /\ NeedsRepair(Validated(file.st))
    /\ LoadReturn(w, [Validated(file.st) EXCEPT !.start_time = isoformat(now)],
                  "repaired", file)
    /\ UNCHANGED <<file, tmp, fd, now, req, cache0, solo, nreq, nfault, wroteLive, init0, lastw>>
    /\ UNCHANGED <<logVars, clientVars>>

\* lines 82-85: enabled without a start time; stamp it and re-save.
LoadRepair(w) ==
    /\ pc[w] = "load"
    /\ file.kind = "json"
    /\ NeedsRepair(Validated(file.st))
    /\ sv' = W(sv, w, [Validated(file.st) EXCEPT !.start_time = isoformat(now)])
    /\ pc' = W(pc, w, "save_open")
    /\ UNCHANGED <<file, tmp, fd, now, site, req, cur, newst, pend, resp, cache,
                   snap, cache0, solo, nreq, nfault, tdec, wroteLive, init0, lastw>>
    /\ UNCHANGED <<logVars, clientVars>>

\* A load that returns the initial state without creating the file.
LoadMissing_NoSave(w) ==
    /\ pc[w] = "load"
    /\ file.kind = "missing"
    /\ LoadReturn(w, DefaultState, "created", file)
    /\ UNCHANGED <<file, tmp, fd, now, req, cache0, solo, nreq, nfault, wroteLive, init0, lastw>>
    /\ UNCHANGED <<logVars, clientVars>>

\* lines 87-95: no file yet; create the initial one.
LoadMissing(w) ==
    /\ pc[w] = "load"
    /\ file.kind = "missing"
    /\ sv' = W(sv, w, DefaultState)
    /\ pc' = W(pc, w, "save_open")
    /\ UNCHANGED <<file, tmp, fd, now, site, req, cur, newst, pend, resp, cache,
                   snap, cache0, solo, nreq, nfault, tdec, wroteLive, init0, lastw>>
    /\ UNCHANGED <<logVars, clientVars>>

\* open() or json.load raises: unreadable, empty or not JSON.
LoadFail(w) ==
    /\ pc[w] = "load"
    /\ file.kind \in {"unreadable", "empty", "garbage"}
    /\ LoadOnException(w, file.kind, file)
    /\ UNCHANGED <<file, tmp, fd, now, req, cache0, solo, nreq, nfault, wroteLive, init0, lastw>>
    /\ UNCHANGED <<logVars, clientVars>>

\* save_live_mode_to_file line 110: open(tmp, 'w') creates or truncates.
SaveOpen(w) ==
    /\ pc[w] = "save_open"
    /\ tmp' = Empty
    /\ fd' = W(fd, w, "tmp")
    /\ pc' = W(pc, w, "save_write")
    /\ UNCHANGED <<file, now, site, req, sv, cur, newst, pend, resp, cache,
                   snap, cache0, solo, nreq, nfault, tdec, wroteLive, init0, lastw>>
    /\ UNCHANGED <<logVars, clientVars>>

\* line 110 raises (the directory is not writable, the disk is full).
SaveOpenFail(w) ==
    /\ pc[w] = "save_open"
    /\ nfault < MaxFaults
    /\ nfault' = nfault + 1
    /\ SaveDone(w, FALSE, file)
    /\ UNCHANGED <<file, tmp, fd, now, req, cache0, solo, nreq, wroteLive, init0, lastw>>
    /\ UNCHANGED <<logVars, clientVars>>

\* lines 111-115: the text reaches the file when the with block closes it.
SaveWrite(w) ==
    /\ pc[w] = "save_write"
    /\ tmp' = IF fd[w] = "tmp" THEN Overwrite(tmp, Dumped(sv[w])) ELSE tmp
    /\ file' = IF fd[w] = "live" THEN Overwrite(file, Dumped(sv[w])) ELSE file
    /\ wroteLive' = W(wroteLive, w,
                       wroteLive[w] \/ (/\ site[w] = "set244"
                                        /\ fd[w] = "live"
                                        /\ Overwrite(file, Dumped(sv[w])) # file))
    /\ fd' = W(fd, w, "none")
    /\ pc' = W(pc, w, "save_replace")
    /\ UNCHANGED <<now, site, req, sv, cur, newst, pend, resp, cache, snap,
                   cache0, solo, nreq, nfault, tdec, init0, lastw>>
    /\ UNCHANGED <<logVars, clientVars>>

\* An os.replace that removes the temporary file without installing it.
SaveReplace_Dropped(w) ==
    /\ pc[w] = "save_replace"
    /\ tmp.kind # "missing"
    /\ tmp' = Missing
    /\ fd' = [x \in Workers |-> IF fd[x] = "tmp" THEN "gone" ELSE fd[x]]
    /\ SaveDone(w, TRUE, file)
    /\ UNCHANGED <<file, now, req, cache0, solo, nreq, nfault, wroteLive, init0, lastw>>
    /\ UNCHANGED <<logVars, clientVars>>

\* line 117: os.replace(tmp, LIVE_MODE_FILE).
SaveReplace(w) ==
    /\ pc[w] = "save_replace"
    /\ tmp.kind # "missing"
    /\ file' = tmp
    /\ tmp' = Missing
    /\ fd' = [x \in Workers |-> IF fd[x] = "tmp" THEN "live"
                                ELSE IF fd[x] = "live" THEN "gone" ELSE fd[x]]
    /\ SaveDone(w, TRUE, tmp)
    /\ UNCHANGED <<now, req, cache0, solo, nreq, nfault, wroteLive, init0>>
    /\ lastw' = w
    /\ UNCHANGED <<logVars, clientVars>>

\* line 117 raises FileNotFoundError: another worker renamed the file away.
SaveReplaceFail(w) ==
    /\ pc[w] = "save_replace"
    /\ tmp.kind = "missing"
    /\ SaveDone(w, FALSE, file)
    /\ UNCHANGED <<file, tmp, fd, now, req, cache0, solo, nreq, nfault, wroteLive, init0, lastw>>
    /\ UNCHANGED <<logVars, clientVars>>

\* ------------------------------------------------------------ the event log
\* What the log handlers leave alone of the live-session state.
liveFrame == <<file, tmp, fd, now, site, req, sv, cur, newst, pend, cache,
               snap, cache0, solo, nreq, tdec, wroteLive, init0, lastw>>

\* load_data, lines 137-147: no file, or a file that does not parse, is [].
Loaded(f) == IF f.kind = "json" THEN f.list ELSE <<>>

\* A write of a list from offset 0 into the file another worker has written
\* since this worker's open(DATA_FILE, 'w'): a shorter text leaves a tail.
DOverwrite(old, l) ==
    IF old.kind = "json" /\ Len(l) < Len(old.list) THEN DGarbage ELSE DJson(l)

\* add_trick_or_treater 399-407, undo_last_entry 428-433, upload_batch
\* 461-462: read the log and change the list in memory.
DLoad(w) ==
    LET l == Loaded(dfile) IN
    /\ pc[w] = "dload"
    /\ IF req[w].op = "undo" /\ l = <<>>
       THEN /\ resp' = W(resp, w, Answer("undo", "empty", 400))
            /\ pc' = W(pc, w, "idle")
            /\ UNCHANGED data
       ELSE /\ data' = W(data, w,
                   CASE req[w].op = "add" -> Append(l, Entry(now))
                     [] req[w].op = "undo" -> SubSeq(l, 1, Len(l) - 1)
                     [] OTHER -> l \o req[w].batch)
            /\ pc' = W(pc, w, "dsave_open")
            /\ UNCHANGED resp
    /\ UNCHANGED <<liveFrame, nfault, dfile, clientVars>>

\* save_data line 153: open(DATA_FILE, 'w') truncates the log in place.
DSaveOpen(w) ==
    /\ pc[w] = "dsave_open"
    /\ dfile' = DEmpty
    /\ pc' = W(pc, w, "dsave_write")
    /\ UNCHANGED <<liveFrame, nfault, resp, data, clientVars>>

\* save_data lines 155-156: the open raises, the error is logged and
\* swallowed, and the handler goes on to its success answer.
DSaveOpenFail(w) ==
    /\ pc[w] = "dsave_open"
    /\ nfault < MaxFaults
    /\ nfault' = nfault + 1
    /\ resp' = W(resp, w, Answer(req[w].op, "none", 200))
    /\ pc' = W(pc, w, "idle")
    /\ UNCHANGED <<liveFrame, dfile, data, clientVars>>

\* save_data line 154 and the close, then the success answer of the handler.
DSaveWrite(w) ==
    /\ pc[w] = "dsave_write"
    /\ dfile' = DOverwrite(dfile, data[w])
    /\ resp' = W(resp, w, Answer(req[w].op, "none", 200))
    /\ pc' = W(pc, w, "idle")
    /\ UNCHANGED <<liveFrame, nfault, data, clientVars>>

\* The server under requests to the endpoints behind require_api_key.
LogNext ==
    \/ \E w \in Workers, r \in MutRequests : Start(w, r)
    \/ Tick
    \/ \E w \in Workers : LoadOk(w)
    \/ \E w \in Workers : LoadRepair(w)
    \/ \E w \in Workers : LoadMissing(w)
    \/ \E w \in Workers : LoadFail(w)
    \/ \E w \in Workers : SaveOpen(w)
    \/ \E w \in Workers : SaveOpenFail(w)
    \/ \E w \in Workers : SaveWrite(w)
    \/ \E w \in Workers : SaveReplace(w)
    \/ \E w \in Workers : SaveReplaceFail(w)
    \/ \E w \in Workers : DLoad(w)
    \/ \E w \in Workers : DSaveOpen(w)
    \/ \E w \in Workers : DSaveOpenFail(w)
    \/ \E w \in Workers : DSaveWrite(w)

SpecLog == LogInit /\ [][LogNext]_vars

\* ------------------------------------------------- the serial line decoder
\* A device line is a sequence of tokens: words, punctuation, decimal digits.
Digits == {"0", "1", "2", "3", "4"}
Tokens == {"Button", "Heart", ":"} \cup Digits
Lines == UNION {[1..n -> Tokens] : n \in 0..MaxLineLen}

DigitVal(c) ==
    CASE c = "0" -> 0 [] c = "1" -> 1 [] c = "2" -> 2 [] c = "3" -> 3 [] OTHER -> 4

\* "Button" in data.
Contains(word, l) == \E i \in 1..Len(l) : l[i] = word

\* re.search(r'\d+', data): the position of the first digit (0: no match)
\* and the end of the run of digits that starts there.
FirstDigit(l) ==
    IF \E i \in 1..Len(l) : l[i] \in Digits
    THEN CHOOSE i \in 1..Len(l) :
            l[i] \in Digits /\ \A j \in 1..(i - 1) : l[j] \notin Digits
    ELSE 0
RunEnd(l, p) ==
    CHOOSE e \in p..Len(l) :
        /\ \A j \in p..e : l[j] \in Digits
        /\ (e = Len(l) \/ l[e + 1] \notin Digits)

\* int() of the digits l[p..e].
RECURSIVE IntOf(_, _, _)
IntOf(l, p, e) ==
    IF e < p THEN 0 ELSE 10 * IntOf(l, p, e - 1) + DigitVal(l[e])

\* __process_button, lines 59-63: what it invokes, or the exception it
\* raises.  A negative index counts from the end of a Python list.
ProcessButton(cbs, button_index) ==
    IF Len(cbs) > button_index
    THEN LET i == IF button_index < 0 THEN Len(cbs) + button_index
                  ELSE button_index
         IN  IF i < 0 THEN [raised |-> "IndexError", invoked |-> <<>>]
             ELSE IF cbs[i + 1]
                  THEN [raised |-> "none",
                        invoked |-> <<[cb |-> "button", index |-> i]>>]
             ELSE [raised |-> "none", invoked |-> <<>>]
    ELSE [raised |-> "none", invoked |-> <<>>]

\* __process_heart, lines 65-67: prints.
ProcessHeart(id) == [raised |-> "none", invoked |-> <<>>]

\* handle_line, lines 35-41.
Handled(cbs, l) ==
    LET p == FirstDigit(l) IN
    IF p = 0 THEN [raised |-> "AttributeError", invoked |-> <<>>]
    ELSE LET numeric_data == IntOf(l, p, RunEnd(l, p)) - 1 IN
         IF Contains("Button", l) THEN ProcessButton(cbs, numeric_data)
         ELSE IF Contains("Heart", l) THEN ProcessHeart(numeric_data)
         ELSE [raised |-> "none", invoked |-> <<>>]

\* The callbacks RadioInterface.start registers (lines 88-89): a callable
\* is TRUE, None is FALSE.
CallbackLists == {<<>>, <<TRUE>>, <<TRUE, TRUE, TRUE>>, <<TRUE, FALSE, TRUE>>}

DecInit ==
    /\ ServerQuiet
    /\ BrQuiet
    /\ RcQuiet
    /\ RunQuiet
    /\ SyncQuiet
    /\ IntQuiet
    /\ event_callback_list \in CallbackLists
    /\ heart_callback \in BOOLEAN
    /\ alive = TRUE
    /\ line = <<>>
    /\ invoked = <<>>
    /\ raised = "none"
    /\ nlines = 0

\* The reader thread hands a line to handle_line; an exception that leaves
\* handle_line ends the reader thread.
HandleLine(l) ==
    LET h == Handled(event_callback_list, l) IN
    /\ alive
    /\ nlines < MaxLines
    /\ nlines' = nlines + 1
    /\ line' = l
    /\ invoked' = h.invoked
    /\ raised' = h.raised
    /\ alive' = (h.raised = "none")
    /\ UNCHANGED <<event_callback_list, heart_callback, serverVars, brVars,
                   rcVars, runVars, syncVars, intVars>>

DecNext == \E l \in Lines : HandleLine(l)

SpecDecoder == DecInit /\ [][DecNext]_vars

\* ------------------------------------------------------ the local bridge
\* Strings handle_button_press may be given, as sequences of tokens.
Presses ==
    {<<>>, <<"COUNT">>, <<"UNDO">>, <<"Button">>, <<"Heart", ":", "1">>,
     <<"Button", ":", "1">>, <<"Button", "1">>, <<"Button", "3">>,
     <<"Button", ":", "3">>, <<"Button", "0">>, <<"Button", "4">>,
     <<"Button", "1", "3">>, <<"1", "Button">>, <<"Button", ":", "1", "3">>,
     <<"Button", "0", "1">>, <<"Button", "2">>}

\* A record that never carries the flag.
Rec_NoFlag(t, pending) == [timestamp |-> t, count |-> 1, year |-> "Y"]

\* The record of lines 126-130 and 165-169 (no flag), and of lines 136-141
\* and 174-179 (pending_upload: True).
Rec(t, pending) ==
    IF pending
    THEN [timestamp |-> t, count |-> 1, year |-> "Y", pending_upload |-> TRUE]
    ELSE [timestamp |-> t, count |-> 1, year |-> "Y"]

\* save_local_backup, lines 85-107: the file after the call.  An exception
\* (a file that does not parse) is logged and swallowed.
SavedBackup(backup, f, rec) ==
    IF ~backup THEN f
    ELSE IF f.kind = "missing" THEN QJson(<<rec>>)
    ELSE IF f.kind = "json" THEN QJson(Append(f.list, rec))
    ELSE f

\* A mapping that gives button 2 the count action.
ActionOf_Two(b) ==
    IF b = <<"COUNT">> THEN "add"
    ELSE IF Len(b) > 0 /\ b[1] = "Button"
    THEN IF FirstDigit(b) = 0 THEN "none"
         ELSE LET idx == IntOf(b, FirstDigit(b), RunEnd(b, FirstDigit(b)))
              IN  IF idx \in {1, 2} THEN "add"
                  ELSE IF idx = 3 THEN "undo" ELSE "none"
    ELSE IF b = <<"UNDO">> THEN "undo"
    ELSE "none"

\* The domain event a press stands for, lines 117, 147-160, 182, 193:
\* "add", "undo" or "none".
ActionOf(b) ==
    IF b = <<"COUNT">> THEN "add"
    ELSE IF Len(b) > 0 /\ b[1] = "Button"
    THEN IF FirstDigit(b) = 0 THEN "none"
         ELSE LET idx == IntOf(b, FirstDigit(b), RunEnd(b, FirstDigit(b)))
              IN  IF idx = 1 THEN "add" ELSE IF idx = 3 THEN "undo" ELSE "none"
    ELSE IF b = <<"UNDO">> THEN "undo"
    ELSE "none"

BrInit ==
    /\ ServerQuiet
    /\ DecQuiet
    /\ RcQuiet
    /\ RunQuiet
    /\ SyncQuiet
    /\ IntQuiet
    /\ local_backup \in BOOLEAN
    /\ qfile \in {QMissing, QGarbage, QJson(<<>>), QJson(<<Rec(0, TRUE)>>)}
    /\ press = <<>>
    /\ calls = <<>>
    /\ result = "none"
    /\ appended = <<>>
    /\ npress = 0

\* handle_button_press, lines 109-203, with the remote call answering ok
\* (a result) or not (None).
HandleButtonPress(b, ok) ==
    LET act == ActionOf(b)
        rec == Rec(npress + 1, ~ok)
        f == IF act = "add" THEN SavedBackup(local_backup, qfile, rec) ELSE qfile
    IN
    /\ npress < MaxPresses
    /\ npress' = npress + 1
    /\ press' = b
    /\ calls' = IF act = "none" THEN <<>> ELSE <<act>>
    /\ result' = IF act # "none" /\ ok THEN "ok" ELSE "none"
    /\ qfile' = f
    /\ appended' = IF f = qfile THEN <<>> ELSE <<rec>>
    /\ UNCHANGED <<local_backup, serverVars, decVars, rcVars, runVars,
                   syncVars, intVars>>

BrNext == \E b \in Presses, ok \in BOOLEAN : HandleButtonPress(b, ok)

SpecBridge == BrInit /\ [][BrNext]_vars

\* ---------------------------------------------------- the retrying client
\* backoff_factor (0.3 s) in tenths of a second.
BackoffTenths == 3

\* What one session.request can meet: an exception, or a response with a
\* status, a Retry-After header and a body that is JSON or not.
NoHeader == [kind |-> "none", val |-> 0]
RetryAfters ==
    {NoHeader, [kind |-> "date", val |-> 0]}
    \cup {[kind |-> "int", val |-> v] : v \in 0..MaxRetryAfter}
Outcomes ==
    {[kind |-> "timeout", status |-> 0, retry_after |-> NoHeader, json |-> FALSE],
     [kind |-> "connection", status |-> 0, retry_after |-> NoHeader, json |-> FALSE]}
    \cup [kind : {"response"}, status : {429}, retry_after : RetryAfters,
          json : {FALSE}]
    \cup [kind : {"response"}, status : {200, 400, 401, 500, 503},
          retry_after : {NoHeader}, json : BOOLEAN]

RECURSIVE Pow2(_)
Pow2(n) == IF n <= 0 THEN 1 ELSE 2 * Pow2(n - 1)

\* A delay that does not grow with the attempt.
Backoff_Flat(k) == BackoffTenths

\* backoff_factor * (2 ** (attempt - 1)), lines 65, 88, 107, 115.
Backoff(k) == BackoffTenths * Pow2(k - 1)

Max(a, b) == IF a >= b THEN a ELSE b

\* lines 64-72: the delay after a 429.
Delay429(k, retry_after) ==
    IF retry_after.kind = "int"
    THEN Max(Backoff(k), 10 * retry_after.val)
    ELSE Backoff(k)

\* A status test that takes client errors for server errors.
ServerError_From400(status) == status >= 400 /\ status < 600

\* line 85: 500 <= response.status_code < 600.
ServerError(status) == status >= 500 /\ status < 600

\* lines 104 and 112 (and the negation of line 87): the budget is used up.
Exhausted(k, budget) == k >= budget

\* _make_request is called with retries = n (line 50).
RcInit ==
    /\ ServerQuiet
    /\ DecQuiet
    /\ BrQuiet
    /\ RunQuiet
    /\ SyncQuiet
    /\ IntQuiet
    /\ max_retries \in 1..MaxBudget
    /\ attempt = 1
    /\ responses = <<>>
    /\ delays = <<>>
    /\ returned = "running"

\* One pass of the loop of lines 54-124, and the exit of lines 126-127
\* when the pass leaves attempt above the budget.
Attempt(o) ==
    LET retry429 == o.kind = "response" /\ o.status = 429
        retry5xx == /\ o.kind = "response"
                    /\ o.status # 429
                    /\ ServerError(o.status)
                    /\ ~Exhausted(attempt, max_retries)
        retryExc == /\ o.kind \in {"timeout", "connection"}
                    /\ ~Exhausted(attempt, max_retries)
        again == retry429 \/ retry5xx \/ retryExc
    IN
    /\ returned = "running"
    /\ attempt <= max_retries
    /\ responses' = Append(responses, o)
    /\ delays' = IF retry429 THEN Append(delays, Delay429(attempt, o.retry_after))
                 ELSE IF again THEN Append(delays, Backoff(attempt))
                 ELSE delays
    /\ attempt' = IF again THEN attempt + 1 ELSE attempt
    /\ returned' = IF again
                   THEN IF attempt + 1 <= max_retries THEN "running" ELSE "none"
                   ELSE IF o.kind = "response" /\ o.status < 400 /\ o.json
                   THEN "json"
                   ELSE "none"
    /\ UNCHANGED <<max_retries, serverVars, decVars, brVars, runVars,
                   syncVars, intVars>>

RcNext == \E o \in Outcomes : Attempt(o)

SpecClient == RcInit /\ [][RcNext]_vars

\* The same call with a larger budget (retries = n, line 50) against a
\* server that only times out, refuses the connection or answers 503.
TransientOutcomes ==
    {o \in Outcomes : o.kind \in {"timeout", "connection"}
                       \/ (o.status = 503 /\ ~o.json)}

RcLongInit ==
    /\ ServerQuiet
    /\ DecQuiet
    /\ BrQuiet
    /\ RunQuiet
    /\ SyncQuiet
    /\ IntQuiet
    /\ max_retries \in 1..MaxLongBudget
    /\ attempt = 1
    /\ responses = <<>>
    /\ delays = <<>>
    /\ returned = "running"

RcLongNext == \E o \in TransientOutcomes : Attempt(o)

SpecBackoff == RcLongInit /\ [][RcLongNext]_vars

\* ------------------------------------------------------ the monitor's run
\* self.client_id, line 58; the other clients are "B" and one that names
\* no owner (set_live(True) as in remote_api_client.py line 238).
client_id == "A"
OtherOwners == {"B", NULL}

\* A budget of one round more.
MaxHealthAttempts_Six == 5 + 1

\* max_health_attempts, line 235.
MaxHealthAttempts == 5
\* kwargs.pop('retries', 3), remote_api_client.py line 50.
DefaultRetries == 3

\* What the attempts of one _make_request meet: "down" (the request never
\* arrived, or the server answered 5xx without acting), "lost" (the server
\* acted, the answer timed out), "ok" (a 200 with a JSON body).  A failure
\* is retried within the budget, an answer ends the call.
Failing == {"down", "lost"}
CallRuns ==
    {r \in UNION {[1..n -> {"down", "lost", "ok"}] : n \in 1..DefaultRetries} :
        /\ \A i \in 1..(Len(r) - 1) : r[i] \in Failing
        /\ r[Len(r)] = "ok" \/ Len(r) = DefaultRetries}
Runs == IF net = "stable" THEN {<<"ok">>} ELSE CallRuns
Probes == IF net = "stable" THEN {TRUE} ELSE BOOLEAN

\* app.py set_live, lines 206-240 and 261 on, on a file that parses and a
\* disk that works: the record it leaves and the fields of its answer.
SetLiveAt(st, desired, owner) ==
    LET b == Branch(desired, st, owner)
    IN  [st |-> IF b = "enable" THEN EnabledState(st, now, owner)
                ELSE IF b = "disable" THEN DisabledState(st)
                ELSE st,
         live |-> IF b = "enable" THEN TRUE
                  ELSE IF b = "disable" THEN FALSE
                  ELSE st.enabled,
         error |-> IF b = "reject" THEN "conflict" ELSE "none"]

\* The server record after the attempts of a call that arrived.
RECURSIVE ServerAfter(_, _, _, _)
ServerAfter(st, run, desired, owner) ==
    IF run = <<>> THEN st
    ELSE ServerAfter(IF Head(run) \in {"lost", "ok"}
                     THEN SetLiveAt(st, desired, owner).st
                     ELSE st,
                     Tail(run), desired, owner)

\* api_client.set_live(desired, owner=owner), remote_api_client.py lines
\* 129-143: the record the server is left with, and the returned dict
\* (answered = FALSE stands for None).
CallSetLive(st, run, desired, owner) ==
    LET before == ServerAfter(st, SubSeq(run, 1, Len(run) - 1), desired, owner)
        last == SetLiveAt(before, desired, owner)
        answered == run[Len(run)] = "ok"
    IN  [st |-> ServerAfter(st, run, desired, owner),
         answered |-> answered,
         live |-> answered /\ last.live,
         error |-> IF answered THEN last.error ELSE "none",
         sent |-> Len(run)]

\* LocalSerialMonitor(...), lines 31-60: the object exists, run() has not
\* been called, the server holds no session.
RunInit ==
    /\ ServerQuiet
    /\ DecQuiet
    /\ BrQuiet
    /\ RcQuiet
    /\ SyncQuiet
    /\ IntQuiet
    /\ is_running = FALSE
    /\ live_was_enabled_by_me = FALSE
    /\ rpc = "created"
    /\ health_attempt = 0
    /\ startup_enabled = FALSE
    /\ srv = DefaultState
    /\ net = "flaky"
    /\ stop_requested = FALSE
    /\ last_round = NoRound
    /\ last_check = NoCheck
    /\ bye = NoBye
    /\ device_lines = 0
    /\ late_lines = 0

runFrame == <<serverVars, decVars, brVars, rcVars, syncVars, intVars>>

\* exit_app, lines 347-348, called from the signal handler of local_app.py
\* lines 175-185.
ExitApp ==
    /\ rpc \in {"created", "startup", "loop"}
    /\ ~stop_requested
    /\ stop_requested' = TRUE
    /\ is_running' = FALSE
    /\ UNCHANGED <<live_was_enabled_by_me, rpc, health_attempt,
                   startup_enabled, srv, net, last_round, last_check, bye,
                   device_lines, late_lines, runFrame>>

\* run(), lines 221-237: without a serial connection it returns; with one
\* it sets the flag and enters the startup loop.
RunStart(connected) ==
    /\ rpc = "created"
    /\ rpc' = IF connected THEN "startup" ELSE "done"
    /\ is_running' = IF connected THEN TRUE ELSE is_running
    /\ health_attempt' = 0
    /\ startup_enabled' = FALSE
    /\ UNCHANGED <<live_was_enabled_by_me, srv, net, stop_requested,
                   last_round, last_check, bye, device_lines, late_lines,
                   runFrame>>

\* One round of the startup loop, lines 238-256.
StartupRound(probe, run) ==
    LET call == CallSetLive(srv, run, TRUE, client_id)
        got == probe /\ call.answered
    IN
    /\ rpc = "startup"
    /\ health_attempt < MaxHealthAttempts /\ ~startup_enabled /\ is_running
    /\ srv' = IF probe THEN call.st ELSE srv
    /\ live_was_enabled_by_me' = (live_was_enabled_by_me \/ got)
    /\ startup_enabled' = got
    /\ health_attempt' = health_attempt + 1
    /\ last_round' = [probe |-> probe,
                      sent |-> IF probe THEN call.sent ELSE 0,
                      answered |-> got,
                      desired |-> probe,
                      owner |-> IF probe THEN client_id ELSE NULL]
    /\ UNCHANGED <<is_running, rpc, net, stop_requested, last_check, bye,
                   device_lines, late_lines, runFrame>>

\* The startup loop ends, lines 238 and 258-262.
StartupEnd ==
    /\ rpc = "startup"
    /\ ~(health_attempt < MaxHealthAttempts /\ ~startup_enabled /\ is_running)
    /\ rpc' = "loop"
    /\ UNCHANGED <<is_running, live_was_enabled_by_me, health_attempt,
                   startup_enabled, srv, net, stop_requested, last_round,
                   last_check, bye, device_lines, late_lines, runFrame>>

\* An iteration of the event loop that reads a device line, lines 262 and
\* 294-300.
ReadLine ==
    /\ rpc = "loop"
    /\ is_running
    /\ device_lines < MaxDeviceLines
    /\ device_lines' = device_lines + 1
    /\ late_lines' = IF stop_requested THEN late_lines + 1 ELSE late_lines
    /\ UNCHANGED <<is_running, live_was_enabled_by_me, rpc, health_attempt,
                   startup_enabled, srv, net, stop_requested, last_round,
                   last_check, bye, runFrame>>

\* The test of line 271 with server_live not negated.
Reenable_Inverted(probe, have_status, mine, server_live) ==
    probe /\ have_status /\ mine /\ server_live

\* lines 265, 269 and 271: the check re-enables the session.
Reenable(probe, have_status, mine, server_live) ==
    probe /\ have_status /\ mine /\ ~server_live

\* lines 265, 269 and 282: the check tries to acquire the session.
Acquire(probe, have_status, mine) == probe /\ ~have_status /\ ~mine

\* An iteration of the event loop whose health check is due, lines 262-292:
\* health_check() returned probe, get_live_status() a dict or None.
HealthCheck(probe, have_status, run) ==
    LET mine == live_was_enabled_by_me
        server_live == srv.enabled
        reenable == Reenable(probe, have_status, mine, server_live)
        acquire == Acquire(probe, have_status, mine)
        call == CallSetLive(srv, run, TRUE, client_id)
    IN
    /\ rpc = "loop"
    /\ is_running
    /\ srv' = IF reenable \/ acquire THEN call.st ELSE srv
    /\ live_was_enabled_by_me' = (mine \/ (acquire /\ call.answered))
    /\ last_check' = [health |-> probe,
                      status |-> IF ~probe \/ ~have_status THEN "none"
                                 ELSE IF server_live THEN "live" ELSE "off",
                      mine |-> mine,
                      sent |-> IF reenable \/ acquire THEN call.sent ELSE 0,
                      desired |-> reenable \/ acquire,
                      owner |-> IF reenable \/ acquire THEN client_id ELSE NULL]
    /\ UNCHANGED <<is_running, rpc, health_attempt, startup_enabled, net,
                   stop_requested, last_round, bye, device_lines, late_lines,
                   runFrame>>

\* The finally block of run(), lines 306-317.
Shutdown(run) ==
    LET call == CallSetLive(srv, run, FALSE, client_id)
    IN
    /\ is_running' = FALSE
    /\ rpc' = "done"
    /\ srv' = IF live_was_enabled_by_me THEN call.st ELSE srv
    /\ bye' = IF live_was_enabled_by_me
              THEN [sent |-> call.sent,
                    owner |-> client_id,
                    turned_off |-> srv.enabled /\ ~call.st.enabled,
                    victim |-> srv.owner,
                    answer |-> IF ~call.answered THEN "none"
                               ELSE IF call.error = "conflict" THEN "conflict"
                               ELSE "ok",
                    log |-> IF call.answered THEN "disabled" ELSE "failed"]
              ELSE NoBye
    /\ UNCHANGED <<live_was_enabled_by_me, health_attempt, startup_enabled,
                   net, stop_requested, last_round, last_check, device_lines,
                   late_lines, runFrame>>

\* The event loop finds the flag cleared, line 262.
LoopExit(run) ==
    /\ rpc = "loop"
    /\ ~is_running
    /\ Shutdown(run)

\* The event loop is left by an exception, lines 302-305.
LoopInterrupted(run) ==
    /\ rpc = "loop"
    /\ is_running
    /\ Shutdown(run)

\* Another client posts /set_live, app.py lines 189-240.
Other(desired, owner) ==
    /\ rpc \in {"created", "startup", "loop"}
    /\ srv' = SetLiveAt(srv, desired, owner).st
    /\ srv' # srv
    /\ UNCHANGED <<is_running, live_was_enabled_by_me, rpc, health_attempt,
                   startup_enabled, net, stop_requested, last_round,
                   last_check, bye, device_lines, late_lines, runFrame>>

\* From here on the server is reachable and answers every call.
Stabilize ==
    /\ rpc \in {"created", "startup", "loop"}
    /\ net = "flaky"
    /\ net' = "stable"
    /\ UNCHANGED <<is_running, live_was_enabled_by_me, rpc, health_attempt,
                   startup_enabled, srv, stop_requested, last_round,
                   last_check, bye, device_lines, late_lines, runFrame>>

RunNext ==
    \/ ExitApp
    \/ \E connected \in BOOLEAN : RunStart(connected)
    \/ \E probe \in Probes, run \in Runs : StartupRound(probe, run)
    \/ StartupEnd
    \/ ReadLine
    \/ \E probe \in Probes, have_status \in Probes, run \in Runs :
          HealthCheck(probe, have_status, run)
    \/ \E run \in Runs : LoopExit(run)
    \/ \E run \in Runs : LoopInterrupted(run)
    \/ \E desired \in BOOLEAN, owner \in OtherOwners : Other(desired, owner)
    \/ Stabilize

SpecRun == RunInit /\ [][RunNext]_vars

\* The main thread keeps running: a startup round, the end of the startup
\* loop, the exit of the event loop and (every 60 s, lines 231-232 and
\* 264) a health check happen when they can.  What the device, the user,
\* the network and the other clients do is left open.
RunFairness ==
    /\ WF_vars(\E probe \in Probes, run \in Runs : StartupRound(probe, run))
    /\ WF_vars(StartupEnd)
    /\ WF_vars(\E probe \in Probes, have_status \in Probes, run \in Runs :
                  HealthCheck(probe, have_status, run))
    /\ WF_vars(\E run \in Runs : LoopExit(run))

SpecRunFair == RunInit /\ [][RunNext]_vars /\ RunFairness

\* ------------------------------------------------------ sync_pending_data
\* A record of the local file: without the flag, or with pending_upload
\* True or False.
QRec(t, flag) ==
    IF flag = "absent" THEN Rec(t, FALSE)
    ELSE [Rec(t, TRUE) EXCEPT !.pending_upload = (flag = "true")]

\* The lists the local file may hold: entry i was saved at time i.
QLists ==
    {[i \in 1..Len(fl) |-> QRec(i, fl[i])] :
        fl \in UNION {[1..n -> {"absent", "true", "false"}] : n \in 0..MaxQueue}}

\* d.get('pending_upload'), lines 329 and 339.
Flagged(d) == "pending_upload" \in DOMAIN d /\ d.pending_upload

\* A clearing that writes the flag into every entry.
ClearFlags_All(l) ==
    [i \in 1..Len(l) |->
        [timestamp |-> l[i].timestamp, count |-> l[i].count,
         year |-> l[i].year, pending_upload |-> FALSE]]

\* lines 338-340: the flag of every flagged entry becomes False.
ClearFlags(l) ==
    [i \in 1..Len(l) |->
        IF Flagged(l[i]) THEN [l[i] EXCEPT !.pending_upload = FALSE] ELSE l[i]]

\* main() of local_app.py, lines 196-198: a monitor about to call
\* sync_pending_data, on whatever local file earlier runs left.
SyncInit ==
    /\ ServerQuiet
    /\ DecQuiet
    /\ RcQuiet
    /\ RunQuiet
    /\ IntQuiet
    /\ local_backup \in BOOLEAN
    /\ qfile \in {QMissing, QGarbage} \cup {QJson(l) : l \in QLists}
    /\ press = <<>>
    /\ calls = <<>>
    /\ result = "none"
    /\ appended = <<>>
    /\ npress = 0
    /\ spc = "start"
    /\ all_data = <<>>
    /\ submitted = <<>>
    /\ upload = "none"
    /\ q0 = qfile
    /\ wrote = <<>>
    /\ foreign = <<>>

syncFrame == <<local_backup, press, calls, result, appended, npress,
               serverVars, decVars, rcVars, runVars, intVars>>

\* lines 321-333: the early return, the read (an unparseable file raises
\* and line 345 logs it), the selection of the flagged entries and the
\* start of the upload when there are any.
SyncRead ==
    LET readable == local_backup /\ qfile.kind = "json"
        pending == IF readable THEN SelectSeq(qfile.list, Flagged) ELSE <<>>
    IN
    /\ spc = "start"
    /\ q0' = qfile
    /\ all_data' = IF readable THEN qfile.list ELSE <<>>
    /\ submitted' = pending
    /\ spc' = IF pending # <<>> THEN "called" ELSE "done"
    /\ UNCHANGED <<qfile, upload, wrote, foreign, syncFrame>>

\* What a client call leaves alone of the server when it reaches the
\* event log only.
uploadFrame == <<local_backup, press, calls, result, appended, npress,
                 liveFrame, pc, resp, nfault, data, decVars, rcVars, runVars,
                 intVars>>

\* The attempts of a call that reached the server.
Arrivals(run) == Cardinality({i \in 1..Len(run) : run[i] \in {"lost", "ok"}})

RECURSIVE Repeated(_, _)
Repeated(batch, k) == IF k = 0 THEN <<>> ELSE batch \o Repeated(batch, k - 1)

\* upload_batch, app.py lines 455-463, once per request that arrived: the
\* entries of the body are appended to the log as they are.
UploadedTo(log, batch, k) ==
    IF k = 0 THEN log ELSE DJson(Loaded(log) \o Repeated(batch, k))

\* lines 333-335: upload_data_batch (remote_api_client.py lines 183-194)
\* makes its attempts and returns a dict or None.
SyncAnswer(run) ==
    LET ok == run[Len(run)] = "ok" IN
    /\ spc = "called"
    /\ dfile' = UploadedTo(dfile, submitted, Arrivals(run))
    /\ upload' = IF ok THEN "ok" ELSE "fail"
    /\ spc' = IF ok THEN "write" ELSE "done"
    /\ UNCHANGED <<qfile, all_data, submitted, q0, wrote, foreign, uploadFrame>>

\* lines 338-343: the flags are cleared in all_data and the list is
\* written back over the file.
SyncWrite ==
    /\ spc = "write"
    /\ all_data' = ClearFlags(all_data)
    /\ qfile' = QJson(all_data')
    /\ wrote' = Append(wrote, all_data')
    /\ spc' = "done"
    /\ UNCHANGED <<submitted, upload, q0, foreign, syncFrame>>

\* lines 342-345: open(..., 'w') has truncated the file and the dump
\* fails; the exception is logged.
SyncWriteFail ==
    /\ spc = "write"
    /\ all_data' = ClearFlags(all_data)
    /\ qfile' = QGarbage
    /\ spc' = "done"
    /\ UNCHANGED <<submitted, upload, q0, wrote, foreign, syncFrame>>

\* save_local_backup, lines 85-107, in another process that runs with the
\* same data directory: a record is appended to the file while
\* sync_pending_data is between its read and its write-back.
ForeignAppend(pending) ==
    LET rec == Rec(MaxQueue + 1 + Len(foreign), pending)
    IN
    /\ spc \in {"called", "write"}
    /\ Len(foreign) < MaxForeign
    /\ qfile.kind # "garbage"
    /\ qfile' = SavedBackup(TRUE, qfile, rec)
    /\ foreign' = Append(foreign, rec)
    /\ UNCHANGED <<spc, all_data, submitted, upload, q0, wrote, syncFrame>>

SyncNext ==
    \/ SyncRead
    \/ \E run \in CallRuns : SyncAnswer(run)
    \/ SyncWrite
    \/ SyncWriteFail
    \/ \E pending \in BOOLEAN : ForeignAppend(pending)

SpecSync == SyncInit /\ [][SyncNext]_vars

\* ------------------------------------------- a count, from press to log
\* A monitor that runs behind an unreliable network, on an empty server log
\* and no local file; the clock is the number of the press.
CountInit ==
    /\ ServerQuiet
    /\ DecQuiet
    /\ RcQuiet
    /\ RunQuiet
    /\ SyncQuiet
    /\ IntQuiet
    /\ local_backup \in BOOLEAN
    /\ qfile = QMissing
    /\ press = <<>>
    /\ calls = <<>>
    /\ result = "none"
    /\ appended = <<>>
    /\ npress = 0

\* add_trick_or_treater, app.py lines 399-408, once per request that
\* arrived: an entry stamped with the server's clock is appended to the log.
AddedTo(log, t, k) ==
    IF k = 0 THEN log ELSE DJson(Loaded(log) \o [i \in 1..k |-> Entry(t)])

\* handle_button_press('Button 1'), lines 160-181: add_trick_or_treater
\* (remote_api_client.py line 153) makes its attempts, each arrival is
\* handled by the server, and the record of the press is saved locally,
\* flagged when the call returned None.
PressCount(run) ==
    LET ok == run[Len(run)] = "ok"
        t == npress + 1
        rec == Rec(t, ~ok)
        f == SavedBackup(local_backup, qfile, rec)
    IN
    /\ spc = "none"
    /\ npress < MaxPresses
    /\ npress' = t
    /\ press' = <<"Button", "1">>
    /\ calls' = <<"add">>
    /\ result' = IF ok THEN "ok" ELSE "none"
    /\ qfile' = f
    /\ appended' = IF f = qfile THEN <<>> ELSE <<rec>>
    /\ dfile' = AddedTo(dfile, t, Arrivals(run))
    /\ UNCHANGED <<local_backup, liveFrame, pc, resp, nfault, data, decVars,
                   rcVars, runVars, syncVars, intVars>>

\* The monitor is started again: main() of local_app.py, lines 196-198,
\* builds a monitor on the same local file and calls sync_pending_data.
Restart ==
    /\ spc = "none"
    /\ spc' = "start"
    /\ UNCHANGED <<qfile, all_data, submitted, upload, q0, wrote, foreign,
                   syncFrame>>

CountNext ==
    \/ \E run \in CallRuns : PressCount(run)
    \/ Restart
    \/ SyncRead
    \/ \E run \in CallRuns : SyncAnswer(run)
    \/ SyncWrite
    \/ SyncWriteFail

SpecCount == CountInit /\ [][CountNext]_vars

\* --------------------------------------------------- the integration mode
\* What everything but the integration object keeps.
intFrame == <<serverVars, decVars, brVars, rcVars, runVars, syncVars>>

\* initialize_serial_integration, lines 126-131: the constructor has
\* started the serial interface (line 47) on an empty list (line 33); the
\* call of load_current_data is still to come, on whatever file an earlier
\* run left.
IntInit ==
    /\ ServerQuiet
    /\ DecQuiet
    /\ BrQuiet
    /\ RcQuiet
    /\ RunQuiet
    /\ SyncQuiet
    /\ current_data = <<>>
    /\ data_file \in {DMissing, DGarbage, DJson(<<>>), DJson(<<Entry(0)>>)}
    /\ last_written = DMissing
    /\ lcd = "todo"
    /\ loaded = <<>>
    /\ base = 0
    /\ added = 0
    /\ undone = 0
    /\ nclicks = 0
    /\ cb = "idle"

\* How __save_current_data can end.
SaveOutcomes == {"ok", "noopen", "nowrite"}

\* __save_current_data, lines 76-82: the file after the call.  open() may
\* raise, or truncate the file and json.dump raise; either is printed and
\* swallowed.
SavedData(f, l, how) ==
    IF how = "ok" THEN DJson(l) ELSE IF how = "noopen" THEN f ELSE DEmpty

\* __count_btn_callback, lines 52-61: the lock is taken and the entry
\* appended to the list self.current_data names.
CountAppend ==
    /\ cb = "idle"
    /\ nclicks < MaxClicks
    /\ nclicks' = nclicks + 1
    /\ current_data' = Append(current_data, Entry(nclicks + 1))
    /\ added' = added + 1
    /\ cb' = "save"
    /\ UNCHANGED <<data_file, last_written, lcd, loaded, base, undone,
                   intFrame>>

\* list.pop(), line 70.
Popped(l) == SubSeq(l, 1, Len(l) - 1)

\* __undo_btn_callback, lines 68-74: the lock is taken; a non-empty list
\* loses its last entry, an empty one ends the callback.
UndoPop ==
    /\ cb = "idle"
    /\ nclicks < MaxClicks
    /\ nclicks' = nclicks + 1
    /\ IF current_data # <<>>
       THEN /\ current_data' = Popped(current_data)
            /\ undone' = undone + 1
            /\ cb' = "save"
       ELSE UNCHANGED <<current_data, undone, cb>>
    /\ UNCHANGED <<data_file, last_written, lcd, loaded, base, added,
                   intFrame>>

\* lines 62 and 71: __save_current_data dumps the list self.current_data
\* names now, and the lock is released.
CallbackSave(how) ==
    /\ cb = "save"
    /\ data_file' = SavedData(data_file, current_data, how)
    /\ last_written' = IF how = "ok" THEN DJson(current_data) ELSE last_written
    /\ cb' = "idle"
    /\ UNCHANGED <<current_data, lcd, loaded, base, added, undone, nclicks,
                   intFrame>>

\* load_current_data, lines 86-88 and 90-95, up to the value of json.load:
\* the main thread reads the file without taking data_lock; no file or no
\* JSON gives the empty list.
LoadRead ==
    /\ lcd = "todo"
    /\ loaded' = Loaded(data_file)
    /\ lcd' = "read"
    /\ UNCHANGED <<current_data, data_file, last_written, base, added, undone,
                   nclicks, cb, intFrame>>

\* lines 88, 91 and 95: self.current_data is bound to the list read.
LoadAssign ==
    /\ lcd = "read"
    /\ current_data' = loaded
    /\ base' = Len(loaded)
    /\ added' = 0
    /\ undone' = 0
    /\ lcd' = "done"
    /\ UNCHANGED <<data_file, last_written, loaded, nclicks, cb, intFrame>>

IntNext ==
    \/ CountAppend
    \/ UndoPop
    \/ \E how \in SaveOutcomes : CallbackSave(how)
    \/ LoadRead
    \/ LoadAssign

SpecIntegration == IntInit /\ [][IntNext]_vars

Next ==
    \/ \E w \in Workers, r \in Requests : Start(w, r)
    \/ Tick
    \/ \E w \in Workers : LoadOk(w)
    \/ \E w \in Workers : LoadRepair(w)
    \/ \E w \in Workers : LoadMissing(w)
    \/ \E w \in Workers : LoadFail(w)
    \/ \E w \in Workers : SaveOpen(w)
    \/ \E w \in Workers : SaveOpenFail(w)
    \/ \E w \in Workers : SaveWrite(w)
    \/ \E w \in Workers : SaveReplace(w)
    \/ \E w \in Workers : SaveReplaceFail(w)

Spec == Init /\ [][Next]_vars

\* ------------------------------------------------------------------- types
TypeOK ==
    /\ file.kind \in {"missing", "unreadable", "empty", "garbage", "json"}
    /\ tmp.kind \in {"missing", "empty", "garbage", "json"}
    /\ now \in 0..MaxTime
    /\ \A w \in Workers :
        /\ pc[w] \in {"idle", "load", "save_open", "save_write", "save_replace",
                     "dload", "dsave_open", "dsave_write"}
        /\ fd[w] \in {"none", "tmp", "live", "gone"}
        /\ (fd[w] # "none") <=> (pc[w] = "save_write")
        /\ fd[w] = "tmp" => tmp.kind # "missing"


\* ------------------------------------------------------------------ claims
\* A record of the data model: it parses, and enabled comes with a start time.
WellFormed(c) == c.kind = "json" /\ (c.st.enabled => IsIso(c.st.start_time))

\* Worker w has answered a set_live request that no other worker overlapped;
\* snap[w] is the canonical file its first load left.
SetAlone(w) == pc[w] = "idle" /\ resp[w].kind = "set" /\ solo[w]

\* The case of C1: a disable by owner B of a session enabled by owner A.
C1_Case(w) ==
    /\ SetAlone(w)
    /\ ~req[w].desired
    /\ WellFormed(snap[w])
    /\ snap[w].st.enabled
    /\ snap[w].st.owner \notin {NULL, ""}
    /\ req[w].owner \notin {NULL, ""}
    /\ snap[w].st.owner # req[w].owner

\* C1: a set_live(false) of a non-empty owner B, handled while the record is
\* enabled with a non-empty owner A # B, is rejected: the persisted record is
\* as it was, and the response carries an error and live = true.
C1_RejectLeavesRecord ==
    \A w \in Workers :
        C1_Case(w) =>
            /\ resp[w].error = "conflict"
            /\ resp[w].live = TRUE
            /\ resp[w].code = 200
            /\ file = snap[w]

C1_Witness ==
    \E w \in Workers :
        C1_Case(w) /\ resp[w].error = "conflict" /\ file.st.owner = "A"
                   /\ req[w].owner = "B"

\* The case of C2: a disable that the ownership rule allows.
C2_Case(w) ==
    /\ SetAlone(w)
    /\ ~req[w].desired
    /\ WellFormed(snap[w])
    /\ snap[w].st.enabled
    /\ \/ req[w].owner = snap[w].st.owner
       \/ req[w].owner \in {NULL, ""}
       \/ snap[w].st.owner \in {NULL, ""}
    /\ resp[w].error # "save"

\* C2: a set_live(false) handled while the session is enabled, by the recorded
\* owner or without an owner on either side, and persisted without a write
\* failure (the case of C7), leaves exactly {enabled: false, start_time: null,
\* owner: null} and answers live = false.
C2_DisableClears ==
    \A w \in Workers :
        C2_Case(w) =>
            /\ file.kind = "json"
            /\ file.st = [enabled |-> FALSE, start_time |-> NoneT, owner |-> NULL]
            /\ resp[w].error = "none"
            /\ resp[w].live = FALSE

C2_Witness ==
    \E w \in Workers :
        /\ C2_Case(w)
        /\ req[w].owner = "A"
        /\ snap[w].st.owner = "A"
        /\ file.st = DefaultState

\* The case of C3: an enable of a disabled record, persisted without a write
\* failure.
C3_Case(w) ==
    /\ SetAlone(w)
    /\ req[w].desired
    /\ snap[w].kind = "json"
    /\ ~snap[w].st.enabled
    /\ resp[w].error # "save"

\* C3: a set_live(true) handled while the record is disabled leaves it enabled
\* with start_time the clock value of the request and owner the requesting
\* owner (null when none); the elapsed time it reports counts from that start.
C3_EnableStamps ==
    \A w \in Workers :
        C3_Case(w) =>
            /\ file.kind = "json"
            /\ file.st = [enabled |-> TRUE, start_time |-> <<"iso", tdec[w]>>,
                          owner |-> req[w].owner]
            /\ resp[w].error = "none"
            /\ resp[w].live = TRUE
            /\ resp[w].elapsed = resp[w].at - tdec[w]

\* A session that was enabled at 0, disabled, and enabled again at 1 reports 0.
C3_Witness ==
    \E w \in Workers :
        /\ C3_Case(w)
        /\ init0.kind = "json" /\ init0.st.enabled
        /\ init0.st.start_time = <<"iso", 0>>
        /\ req[w].owner = "B"
        /\ tdec[w] = 1
        /\ resp[w].elapsed = 0

\* The case of C4: the desired value is the persisted one.
C4_Case(w) ==
    /\ SetAlone(w)
    /\ WellFormed(snap[w])
    /\ req[w].desired = snap[w].st.enabled

\* C4: a set_live whose desired value equals the persisted enabled value
\* changes nothing: the record (start_time and owner included, whatever owner
\* the request names) is as it was, and the elapsed time reported still counts
\* from the old start_time.
C4_NoOp ==
    \A w \in Workers :
        C4_Case(w) =>
            /\ file = snap[w]
            /\ resp[w].error = "none"
            /\ resp[w].code = 200
            /\ resp[w].live = snap[w].st.enabled
            /\ resp[w].live => resp[w].elapsed = resp[w].at - snap[w].st.start_time[2]
            /\ ~resp[w].live => resp[w].elapsed = 0

\* set_live(true) by B on a session A enabled at 0, answered at 1.
C4_Witness ==
    \E w \in Workers :
        /\ C4_Case(w)
        /\ req[w].desired
        /\ req[w].owner = "B"
        /\ file.st.owner = "A"
        /\ file.st.start_time = <<"iso", 0>>
        /\ resp[w].elapsed = 1

\* The file the program starts from is missing or holds the default record.
Clean(c) ==
    \/ c.kind = "missing"
    \/ c.kind = "json" /\ c.st = [enabled |-> FALSE, start_time |-> NoneT,
                                  owner |-> NULL]

\* C5: started from a missing or default file, every record the canonical
\* file holds has start_time = null and owner = null when disabled, and a
\* start time when enabled, under every interleaving of the workers.
C5_RecordInvariant ==
    (Clean(init0) /\ file.kind = "json") =>
        /\ ~file.st.enabled => (file.st.start_time = NoneT /\ file.st.owner = NULL)
        /\ file.st.enabled => file.st.start_time[1] = "iso"

\* An enabled record and a record disabled again, both from a clean start.
C5_Witness ==
    /\ Clean(init0)
    /\ nreq = 2
    /\ file.kind = "json"
    /\ ~file.st.enabled
    /\ \E w \in Workers : resp[w].kind = "set" /\ ~req[w].desired
                          /\ snap[w].kind = "json" /\ snap[w].st.enabled


\* The program starts from a file that parses, or from none.
StartsParseable == init0.kind \in {"missing", "json"}

\* C6: while workers run save_live_mode_to_file concurrently, no read of the
\* canonical file finds it partially written or unparseable (the program
\* having started from a parseable file or none).  All workers use the one
\* temporary path, the variable tmp.
C6_NoTornRead ==
    StartsParseable =>
        \A w \in Workers :
            /\ pend[w].r1 \notin {"empty", "garbage"}
            /\ resp[w].r1 \notin {"empty", "garbage"}
            /\ resp[w].r2 \notin {"empty", "garbage"}

\* Worker w has answered a set_live request whose save of line 244 raised.
C7_Case(w) == pc[w] = "idle" /\ resp[w].kind = "set" /\ resp[w].error = "save"

\* C7: when the save of a set_live transition fails, the answer is an error
\* with status 500, the failed save has not changed the canonical file, and
\* the in-memory cache is as it was (the program having started from a
\* parseable file or none).
C7_SaveFailureLeavesRecord ==
    \A w \in Workers :
        (C7_Case(w) /\ StartsParseable) =>
            /\ resp[w].code = 500
            /\ ~wroteLive[w]
            /\ cache[w] = cache0[w]

\* C7 restricted to requests no other worker overlaps, on well-formed
\* records: there the canonical file is the one the handler loaded.
C7_WithoutOverlap ==
    \A w \in Workers :
        (C7_Case(w) /\ solo[w] /\ WellFormed(snap[w])) =>
            /\ resp[w].code = 500
            /\ file = snap[w]
            /\ cache[w] = cache0[w]

\* The case of C8: the first request is a bare load (health_check) of a record
\* that is enabled with a missing or invalid start_time, and the re-save of
\* line 85 did not raise (the case of C39).
C8_Case(w) ==
    /\ nreq = 1
    /\ pc[w] = "idle"
    /\ resp[w].kind = "health"
    /\ init0.kind = "json"
    /\ init0.st.enabled
    /\ init0.st.start_time[1] # "iso"
    /\ resp[w].r1 # "savefail"

\* C8: loading a record with enabled = true and a missing or invalid
\* start_time repairs it: when load returns, the persisted record has a
\* start time, the returned state is enabled with that start time, and the
\* owner is kept.
C8_RepairOnLoad ==
    \A w \in Workers :
        C8_Case(w) =>
            /\ file.kind = "json"
            /\ file.st.start_time[1] = "iso"
            /\ file.st.enabled
            /\ file.st.owner = init0.st.owner
            /\ resp[w].st = file.st
            /\ resp[w].live = TRUE

\* Both malformed records: start_time null, and a string that is no time.
C8_Witness ==
    \E w \in Workers :
        /\ C8_Case(w)
        /\ init0.st.start_time = <<"str", 0>>
        /\ now = 1
        /\ file.st.start_time = <<"iso", 1>>

\* The ways a load fails: the file cannot be opened, is empty or is no JSON
\* (a failed read), or the save inside the load raised.
ReadFailed(how) == how \in {"unreadable", "empty", "garbage"}
LoadFailed(how) == ReadFailed(how) \/ how = "savefail"

\* C9: get_live_status always answers 200 without an error; a load that
\* fails yields live = false, a load that fails in get_elapsed_seconds yields
\* elapsed_seconds = 0, and with no other worker running a failed read yields
\* both.
C9_StatusNeverFails ==
    \A w \in Workers :
        (pc[w] = "idle" /\ resp[w].kind = "status") =>
            /\ resp[w].code = 200
            /\ resp[w].error = "none"
            /\ LoadFailed(resp[w].r1) => resp[w].live = FALSE
            /\ LoadFailed(resp[w].r2) => resp[w].elapsed = 0
            /\ (solo[w] /\ ReadFailed(resp[w].r1)) => resp[w].elapsed = 0

C9_Witness ==
    \E w \in Workers :
        /\ pc[w] = "idle"
        /\ resp[w].kind = "status"
        /\ init0.kind = "unreadable"
        /\ resp[w].r1 = "unreadable"
        /\ resp[w].r2 = "unreadable"
        /\ resp[w].live = FALSE
        /\ resp[w].elapsed = 0

\* C10: every answer of get_live_status and set_live reports elapsed_seconds
\* = 0 with live = false, and elapsed_seconds = now - start_time of the
\* record that live was read from with live = true, whatever other workers do
\* meanwhile (stated for runs without a disk fault, from a missing or default
\* file).
C10_ElapsedMatchesLive ==
    \A w \in Workers :
        (/\ pc[w] = "idle"
         /\ resp[w].kind \in {"status", "set"}
         /\ nfault = 0
         /\ Clean(init0)) =>
            /\ ~resp[w].live => resp[w].elapsed = 0
            /\ resp[w].live =>
                  /\ resp[w].s1[1] = "iso"
                  /\ resp[w].elapsed = resp[w].at - resp[w].s1[2]

\* The case of C11: a set_live that chose a transition and whose save of line
\* 244 returned, with no other worker overlapping the request.
C11_Case(w) ==
    /\ SetAlone(w)
    /\ Branch(req[w].desired, cur[w], req[w].owner) \in {"enable", "disable"}
    /\ resp[w].error = "none"

\* C11: after a set_live transition has persisted, the re-read of line 258
\* finds the record this call wrote (enabled, start_time and owner), and the
\* response reports live of that record.
C11_ReadYourWrites ==
    \A w \in Workers :
        C11_Case(w) =>
            /\ resp[w].r1 = "ok"
            /\ [enabled |-> resp[w].live, start_time |-> resp[w].s1,
                owner |-> resp[w].o1] = newst[w]
            /\ resp[w].live = req[w].desired
            /\ cache[w] = newst[w]

\* Both transitions are re-read: an enable by B at time 1, and a disable.
C11_Witness ==
    \E w \in Workers :
        /\ C11_Case(w)
        /\ req[w].desired
        /\ resp[w].o1 = "B"
        /\ resp[w].s1 = isoformat(1)
        /\ resp[w].live
        /\ init0.kind = "json" /\ init0.st.enabled
\* The case of C12: both workers have answered a set_live(true), each chose
\* the enable branch on a disabled record, neither answer carries an error,
\* and the two owners differ.
C12_Case ==
    /\ \A w \in Workers :
         /\ pc[w] = "idle"
         /\ resp[w].kind = "set"
         /\ req[w].desired
         /\ ~cur[w].enabled
         /\ resp[w].error = "none"
    /\ \E v, w \in Workers :
         /\ req[v].owner # req[w].owner
         /\ req[v].owner # NULL
         /\ req[w].owner # NULL

\* C12: when two set_live(true) of different owners both went through the
\* enable branch, the persisted record is the one of the worker whose
\* os.replace came last: enabled, with that worker's start time and owner.
C12_LastWriterWins ==
    C12_Case =>
        /\ lastw \in Workers
        /\ file.kind = "json"
        /\ file.st = [enabled |-> TRUE, start_time |-> isoformat(tdec[lastw]),
                      owner |-> req[lastw].owner]

\* Both enables were answered live = true while the requests overlapped, and
\* the record belongs to one of them.
C12_Witness ==
    /\ C12_Case
    /\ \A w \in Workers : resp[w].live /\ ~solo[w]
    /\ file.st.owner = req[lastw].owner
    /\ \E w \in Workers : w # lastw /\ cache[w].owner # file.st.owner
\* Worker w holds a request to a mutating endpoint whose X-API-Key header is
\* absent or is not the configured key.
C13_Case(w) == req[w].op \in MutOps /\ req[w].key # API_KEY

\* C13: a request to set_live, add_trick_or_treater, undo_last_entry or
\* upload_batch without the configured key is answered 401 with an error, its
\* handler never runs, and the step that answers it changes neither the
\* live-session file nor the event log.
C13_Unauthorized ==
    /\ [](\A w \in Workers :
            C13_Case(w) =>
                /\ pc[w] = "idle"
                /\ resp[w].code = 401
                /\ resp[w].error = "unauthorized")
    /\ [][\A w \in Workers :
            (C13_Case(w)' /\ req[w]' # req[w]) =>
                /\ file' = file
                /\ tmp' = tmp
                /\ dfile' = dfile]_vars

\* A disable without any key on an enabled session, with a log that has
\* an entry.
C13_Witness ==
    \E w \in Workers :
        /\ C13_Case(w)
        /\ req[w].op = "set" /\ ~req[w].desired /\ req[w].key = NULL
        /\ resp[w].code = 401
        /\ file.kind = "json" /\ file.st.enabled
        /\ dfile.kind = "json" /\ dfile.list # <<>>
\* Worker w has answered a get_live_status or health request that no other
\* worker overlapped.
ReadAlone(w) ==
    pc[w] = "idle" /\ solo[w] /\ resp[w].kind \in {"status", "health"}

\* C14: a load that finds no record returns the default state and leaves the
\* default record in the canonical file, readable by the next load; without
\* a disk fault a load of a missing record always does so; and a canonical
\* file that exists never stops existing.
C14_CreateOnLoad ==
    /\ [](\A w \in Workers :
            (ReadAlone(w) /\ resp[w].r1 = "created") =>
                /\ ~resp[w].live
                /\ resp[w].s1 = NoneT
                /\ resp[w].o1 = NULL
                /\ file = MkJson(DefaultState)
                /\ (resp[w].kind = "status" => resp[w].r2 = "ok"))
    /\ [](\A w \in Workers :
            (ReadAlone(w) /\ nreq = 1 /\ init0 = Missing /\ nfault = 0) =>
                resp[w].r1 = "created")
    /\ [][file.kind # "missing" => file'.kind # "missing"]_vars

\* A request found no file, and left the default record in its place.
C14_Witness ==
    /\ init0 = Missing
    /\ file = MkJson(DefaultState)
    /\ \E w \in Workers : ReadAlone(w) /\ resp[w].r1 = "created"

\* A line has been handled that contains "Button" and an integer.
ButtonLine ==
    /\ nlines > 0
    /\ Contains("Button", line)
    /\ FirstDigit(line) # 0

\* C15: a line with "Button" and an integer N invokes exactly callbacks[N-1]
\* when 1 <= N <= len(callbacks) and that entry is not None; otherwise it
\* invokes nothing; it never raises.
C15_ButtonDispatch ==
    ButtonLine =>
        LET n == IntOf(line, FirstDigit(line), RunEnd(line, FirstDigit(line)))
        IN  /\ raised = "none"
            /\ invoked = IF /\ n >= 1
                            /\ n <= Len(event_callback_list)
                            /\ event_callback_list[n]
                         THEN <<[cb |-> "button", index |-> n - 1]>>
                         ELSE <<>>

\* A line of the form "Heart: N" has been handled.
HeartLine ==
    /\ nlines > 0
    /\ Len(line) = 3
    /\ line[1] = "Heart" /\ line[2] = ":" /\ line[3] \in Digits

\* C16: a line "Heart: N" invokes the heartbeat callback once when one is
\* registered, nothing when none is, and never a button callback.
C16_HeartDispatch ==
    HeartLine =>
        /\ raised = "none"
        /\ invoked = IF heart_callback
                     THEN <<[cb |-> "heart", index |-> 0]>>
                     ELSE <<>>

\* A line has been handled that has no digit, or that contains neither
\* "Button" nor "Heart".
StrayLine ==
    /\ nlines > 0
    /\ \/ FirstDigit(line) = 0
       \/ ~Contains("Button", line) /\ ~Contains("Heart", line)

\* C17: a line without a digit, or with neither "Button" nor "Heart", leaves
\* handle_line normally, invokes no callback, and leaves the decoder reading.
C17_StrayLineIgnored ==
    StrayLine => (raised = "none" /\ invoked = <<>> /\ alive)
\* The last press stands for a domain event (count or undo); local backup
\* is on and the local file is absent or a list.
EventPress ==
    /\ npress > 0
    /\ ActionOf(press) \in {"add", "undo"}
    /\ local_backup
    /\ qfile.kind # "garbage"

\* C18: every press that stands for a domain event leaves exactly one
\* record: either the server confirmed the event, or one record flagged
\* pending went to the local file; never none, never two.
C18_ExactlyOneRecord ==
    EventPress =>
        /\ Len(appended) <= 1
        /\ \/ result = "ok" /\ \A i \in 1..Len(appended) :
                                  "pending_upload" \notin DOMAIN appended[i]
           \/ /\ result = "none"
              /\ Len(appended) = 1
              /\ "pending_upload" \in DOMAIN appended[1]

\* The last press was a button-1 press, with local backup on and a local
\* file that is absent or a list.
Button1Press ==
    /\ npress > 0
    /\ Len(press) > 0 /\ press[1] = "Button"
    /\ ActionOf(press) = "add"
    /\ local_backup
    /\ qfile.kind # "garbage"

\* C19: when the remote add of a button-1 press returns nothing, exactly one
\* record with pending_upload = true is appended to the local file; when it
\* returns a result, no appended record carries the flag.
C19_FailedAddIsQueued ==
    Button1Press =>
        IF result = "none"
        THEN /\ Len(appended) = 1
             /\ "pending_upload" \in DOMAIN appended[1]
             /\ appended[1].pending_upload
             /\ qfile.kind = "json"
             /\ qfile.list[Len(qfile.list)] = appended[1]
        ELSE \A i \in 1..Len(appended) :
                "pending_upload" \notin DOMAIN appended[i]
\* A failed button-1 add queued behind an earlier pending record.
C19_Witness ==
    /\ Button1Press
    /\ result = "none"
    /\ Len(qfile.list) = 2
    /\ appended = <<qfile.list[2]>>
    /\ qfile.list[2].pending_upload
\* A retryable failure: a timeout, a connection error, a 5xx or a 429.
Retryable(o) ==
    \/ o.kind \in {"timeout", "connection"}
    \/ o.kind = "response" /\ (o.status = 429 \/ o.status >= 500)

\* The call has returned and every attempt met a retryable failure.
C20_Case ==
    /\ returned # "running"
    /\ \A i \in 1..Len(responses) : Retryable(responses[i])

\* The sleeps between consecutive attempts never shrink.
DelaysNonDecreasing ==
    \A i \in 1..(max_retries - 2) : delays[i] <= delays[i + 1]

\* C20 as stated: against retryable failures only, the call makes exactly
\* max_retries attempts, returns None, and the delays between consecutive
\* attempts are non-decreasing.
C20_BudgetAndMonotone ==
    C20_Case =>
        /\ Len(responses) = max_retries
        /\ returned = "none"
        /\ DelaysNonDecreasing

\* A 429 whose numeric Retry-After exceeds the computed delay of its attempt.
Hinted(i) ==
    /\ responses[i].kind = "response"
    /\ responses[i].status = 429
    /\ responses[i].retry_after.kind = "int"
    /\ 10 * responses[i].retry_after.val > BackoffTenths * Pow2(i - 1)

\* C20, amended: against retryable failures only, the call makes exactly
\* max_retries attempts and returns None; the delay after attempt k is
\* base * 2^(k-1), or the larger Retry-After of a 429; the delays between
\* consecutive attempts are non-decreasing when no 429 carried such a hint.
C20_BudgetAndBackoff ==
    C20_Case =>
        /\ Len(responses) = max_retries
        /\ returned = "none"
        /\ Len(delays) >= max_retries - 1
        /\ \A i \in 1..Len(delays) :
              IF Hinted(i)
              THEN delays[i] = 10 * responses[i].retry_after.val
              ELSE delays[i] = BackoffTenths * Pow2(i - 1)
        /\ (\A i \in 1..Len(responses) : ~Hinted(i)) => DelaysNonDecreasing

\* A server that always answers 503, with the default budget of three.
C20_Witness ==
    /\ C20_Case
    /\ max_retries = 3
    /\ Len(responses) = 3
    /\ \A i \in 1..3 : responses[i].status = 503
    /\ delays = <<3, 6>>

\* A terminal outcome: a 4xx response other than 429, or a successful
\* response whose body is not valid JSON.
Terminal(o) ==
    /\ o.kind = "response"
    /\ \/ o.status >= 400 /\ o.status < 500 /\ o.status # 429
       \/ o.status < 400 /\ ~o.json

\* C21: a terminal outcome is the last attempt of its call, and the call
\* returns None: no attempt follows a 4xx response other than 429 or a
\* successful response with a body that is not JSON.
C21_TerminalEndsCall ==
    \A i \in 1..Len(responses) :
        Terminal(responses[i]) => i = Len(responses) /\ returned = "none"

\* With budget left, a timeout was retried and the retry met a 400: the
\* call ended there, on its second attempt of three.
C21_Witness ==
    /\ max_retries = 3
    /\ Len(responses) = 2
    /\ responses[1].kind = "timeout"
    /\ responses[2].kind = "response" /\ responses[2].status = 400
    /\ returned = "none"
    /\ attempt = 2

\* The 60 s at which the bridge caps its own exponential backoff, in tenths
\* of a second; _make_request itself reads no maximum delay.
SleepCapTenths == 600

\* C22 as stated: the delay after attempt k is base * 2^(k-1) and never
\* above the maximum delay; after a 429 with a numeric Retry-After r it is
\* max(base * 2^(k-1), r), and a Retry-After that is not a number leaves
\* the computed delay unchanged.
C22_DelayRuleCapped ==
    \A i \in 1..Len(delays) :
        LET o == responses[i]
            computed == BackoffTenths * Pow2(i - 1)
        IN  /\ computed <= SleepCapTenths
            /\ delays[i] = IF o.kind = "response" /\ o.status = 429
                               /\ o.retry_after.kind = "int"
                            THEN Max(computed, 10 * o.retry_after.val)
                            ELSE computed

\* C23: on exit the monitor sends a disable only when it believes it owns
\* the session, and with its own client id; and its exit never turns off a
\* session whose recorded owner is not this monitor (one another client
\* owns, or one a client that names no owner enabled).
C23_ExitSparesOthers ==
    /\ bye.sent > 0 => live_was_enabled_by_me /\ bye.owner = client_id
    /\ bye.turned_off => bye.victim = client_id

\* The entry of the written list at position i is the entry read there,
\* with its flag cleared when it was submitted and untouched otherwise.
WrittenFrom(written, read, batch) ==
    /\ Len(written) = Len(read)
    /\ \A i \in 1..Len(read) :
          IF \E j \in 1..Len(batch) : batch[j] = read[i]
          THEN written[i] = [read[i] EXCEPT !.pending_upload = FALSE]
          ELSE written[i] = read[i]

\* C24: sync_pending_data submits all the flagged entries of the file it
\* read as one batch; it writes flags only after the upload returned
\* success, and then clears them on exactly the submitted entries; after a
\* failed upload it has written nothing, and the file is as it was read.
C24_Reconciliation ==
    /\ spc \in {"called", "write", "done"} /\ q0.kind = "json" /\ local_backup
          => submitted = SelectSeq(q0.list, Flagged)
    /\ wrote # <<>> =>
          /\ upload = "ok"
          /\ Len(wrote) = 1
          /\ WrittenFrom(wrote[1], q0.list, submitted)
    /\ upload = "fail" =>
          /\ spc = "done"
          /\ wrote = <<>>
          /\ foreign = <<>> => qfile = q0

\* A file with a flagged and an unflagged entry was reconciled: the first
\* was uploaded and lost its flag, the second is as it was.
C24_Witness ==
    /\ spc = "done"
    /\ upload = "ok"
    /\ q0 = QJson(<<QRec(1, "true"), QRec(2, "absent")>>)
    /\ submitted = <<QRec(1, "true")>>
    /\ qfile = QJson(<<QRec(1, "false"), QRec(2, "absent")>>)

\* The monitor is in its event loop without the session and nobody has
\* asked it to stop, the server is reachable from now on and holds no
\* session.
C25_Case ==
    /\ rpc = "loop"
    /\ is_running
    /\ ~stop_requested
    /\ ~live_was_enabled_by_me
    /\ net = "stable"
    /\ ~srv.enabled

\* The monitor has sent set_live(true) with its id and owns the session.
C25_Acquired ==
    /\ live_was_enabled_by_me
    /\ srv.enabled
    /\ srv.owner = client_id

\* C25: a monitor that runs its event loop without the session, facing a
\* server that is reachable from then on and reports no session, eventually
\* enables the session under its own id, unless it is stopped or another
\* client enables the session first.
C25_EventuallyAcquires ==
    C25_Case ~> (C25_Acquired \/ srv.enabled \/ rpc # "loop" \/ ~is_running)

\* C26: once exit_app has been called, whenever after the monitor object
\* was created, the loops of run() find the flag cleared at their next
\* check: the flag is not set again, and no further device line is handled.
C26_StopObserved ==
    stop_requested =>
        /\ rpc \in {"startup", "loop"} => ~is_running
        /\ late_lines = 0

\* The startup loop has come to its end: an enable was answered, or five
\* rounds are used up.
StartupOver == rpc = "startup" /\ (startup_enabled \/ health_attempt >= 5)

\* What holds of the rounds made so far.
C27_Rounds ==
    /\ health_attempt <= 5
    /\ last_round.sent > 0 =>
          /\ last_round.probe
          /\ last_round.desired
          /\ last_round.owner = client_id
    /\ ~last_round.probe => last_round.sent = 0
    /\ last_round.answered => startup_enabled /\ live_was_enabled_by_me

\* C27: the startup acquisition makes at most 5 rounds; a round sends
\* set_live(true, owner = client id) only after a successful health probe;
\* once an enable was answered or 5 rounds are used up no further round is
\* made, and the monitor goes on to the event loop.
C27_StartupBounded ==
    /\ []C27_Rounds
    /\ [][StartupOver =>
            /\ health_attempt' = health_attempt
            /\ last_round' = last_round
            /\ rpc' \in {"startup", "loop"}]_vars

\* Five rounds went by without an answer, nobody asked the monitor to
\* stop, and it is in its event loop.
C27_Witness ==
    /\ rpc = "loop"
    /\ health_attempt = 5
    /\ ~startup_enabled
    /\ ~live_was_enabled_by_me
    /\ ~stop_requested

\* C28: at a periodic health check that got the server's status, a monitor
\* that believes it owns the session and is told live = false sends
\* set_live(true) with its client id; a monitor that does not believe it
\* owns the session and is told live = true sends no set_live request.
C28_HealthCheckRule ==
    /\ last_check.health /\ last_check.status = "off" /\ last_check.mine =>
          /\ last_check.sent > 0
          /\ last_check.desired
          /\ last_check.owner = client_id
    /\ last_check.health /\ last_check.status = "live" /\ ~last_check.mine =>
          last_check.sent = 0

\* The monitor held the session, another client's disable without owner
\* ended it, and the next health check enabled it again under the
\* monitor's id.
C28_Witness ==
    /\ last_check.health
    /\ last_check.status = "off"
    /\ last_check.mine
    /\ last_check.sent > 0
    /\ srv.enabled
    /\ srv.owner = client_id

\* C29: when the server answers the disable of the shutdown protocol with
\* the ownership-conflict error, that answer ends the call, and the
\* monitor does not take it for a successful disable.
C29_ConflictIsNoSuccess ==
    bye.answer = "conflict" =>
        /\ bye.sent <= DefaultRetries
        /\ ~bye.turned_off
        /\ bye.log # "disabled"

\* C30: reconciliation loses and alters no record of the local file but
\* the flag of a submitted entry: once sync_pending_data has returned
\* without a failed write, every record read is still in the file, and
\* so is, with its flag as appended, every record that was appended
\* between the read and the write-back.
C30_NoRecordLost ==
    spc = "done" /\ qfile.kind = "json" /\ q0.kind = "json" =>
        /\ \A i \in 1..Len(q0.list) :
              \E j \in 1..Len(qfile.list) :
                  qfile.list[j] \in {q0.list[i], ClearFlags(q0.list)[i]}
        /\ \A i \in 1..Len(foreign) :
              \E j \in 1..Len(qfile.list) : qfile.list[j] = foreign[i]

\* C31: the server never receives the pending flag: every entry of the
\* server's event log, the entries of a batch upload included, consists of
\* timestamp, count and year only.
C31_NoFlagOnServer ==
    \A i \in 1..Len(Loaded(dfile)) :
        DOMAIN Loaded(dfile)[i] = {"timestamp", "count", "year"}
\* C32: a GET /health request leaves the canonical file, its existence
\* included, exactly as it was: when the only request handled so far is a
\* health probe that has been answered, the file is the one the program
\* started with.
C32_HealthLeavesFile ==
    \A w \in Workers :
        (ReadAlone(w) /\ resp[w].kind = "health" /\ nreq = 1) => file = init0

\* The last press was a Button line.
ButtonPress == npress > 0 /\ Len(press) > 0 /\ press[1] = "Button"

\* C33: a Button line with index 1 makes exactly one add_trick_or_treater
\* call and one with index 3 exactly one undo_last_entry call; index 2, any
\* other index and a Button line without an index make no remote call and
\* append no local record.
C33_ButtonMapping ==
    ButtonPress =>
        LET d == FirstDigit(press)
            idx == IF d = 0 THEN 0 ELSE IntOf(press, d, RunEnd(press, d))
        IN  IF d # 0 /\ idx = 1 THEN calls = <<"add">>
            ELSE IF d # 0 /\ idx = 3 THEN calls = <<"undo">>
            ELSE calls = <<>> /\ result = "none" /\ appended = <<>>

\* A button-3 press made its one undo call and wrote nothing locally.
C33_Witness ==
    /\ ButtonPress
    /\ press = <<"Button", ":", "3">>
    /\ calls = <<"undo">>
    /\ appended = <<>>

\* C34: no os.replace changes the canonical record from enabled with owner
\* X to disabled on behalf of a request that carried a non-empty owner
\* different from X, whatever the interleaving of the workers.
C34_NoStaleDisable ==
    [][(/\ file.kind = "json" /\ file.st.enabled /\ Truthy(file.st.owner)
        /\ file'.kind = "json" /\ ~file'.st.enabled)
       => req[lastw'].owner \in {NULL, file.st.owner}]_vars

\* C35: every set_live answer without an error field reports live equal to
\* the desired value of its request, also while other workers handle
\* set_live requests; stated here for runs without any disk fault.
C35_AnswerIsDesired ==
    \A w \in Workers :
        (/\ pc[w] = "idle" /\ resp[w].kind = "set" /\ resp[w].error = "none"
         /\ nfault = 0)
        => resp[w].live = req[w].desired

\* C36: the monitor starts believing it owns the session only in a step
\* whose set_live answer leaves the server's record enabled with this
\* monitor's client id as owner; not when the enable was a no-op on a
\* session another client had enabled.  Stated for runs in which the
\* application has not asked the monitor to stop.
C36_BeliefIsOwnership ==
    [][(~stop_requested /\ ~live_was_enabled_by_me /\ live_was_enabled_by_me')
       => (srv'.enabled /\ srv'.owner = client_id)]_vars

\* The entries of the server's log that stem from press p.
EntriesOf(p) ==
    {i \in 1..Len(Loaded(dfile)) : Loaded(dfile)[i].timestamp = p}

\* C37: each button-1 press leaves at most one entry in the server's event
\* log, across the client's retries, the local pending queue and the batch
\* upload of a later start.
C37_CountedOnce ==
    \A p \in 1..npress : Cardinality(EntriesOf(p)) <= 1

\* What the answer of worker w promises the log: one entry more for a
\* successful add, the entries of a successful batch, one entry less for a
\* successful undo.
Promised(w) ==
    IF resp[w].error # "none" THEN 0
    ELSE CASE resp[w].kind = "add" -> 1
           [] resp[w].kind = "batch" -> Len(req[w].batch)
           [] resp[w].kind = "undo" -> 0 - 1
           [] OTHER -> 0

RECURSIVE PromisedBy(_)
PromisedBy(S) ==
    IF S = {} THEN 0
    ELSE LET w == CHOOSE x \in S : TRUE IN Promised(w) + PromisedBy(S \ {w})

\* Every request so far has been answered, each by a worker of its own,
\* and no disk fault has occurred.
AllAnswered ==
    /\ \A w \in Workers : pc[w] = "idle"
    /\ Cardinality({w \in Workers : resp[w].kind # "none"}) = nreq
    /\ nfault = 0

\* C38: once the workers have answered, the event log is a list that holds
\* the entries of every mutation answered as success, whatever log the
\* server started with: at least the successful adds and batch entries less
\* the successful undos; and an undo answered "empty" by the only request
\* leaves an empty log.
C38_NoMutationLost ==
    AllAnswered =>
        /\ dfile.kind \in {"missing", "json"}
        /\ Len(Loaded(dfile)) >= PromisedBy(Workers)
        /\ \A w \in Workers :
              (nreq = 1 /\ resp[w].kind = "undo" /\ resp[w].error = "empty")
              => Loaded(dfile) = <<>>

\* C39: a load of a record that parses and has enabled = true returns
\* enabled = true; in particular the only request so far, a status or health
\* request on such a file, never reports live = false, also when the
\* re-save of a repair fails.
C39_EnabledIsReported ==
    \A w \in Workers :
        (ReadAlone(w) /\ nreq = 1 /\ init0.kind = "json" /\ init0.st.enabled)
        => (resp[w].live /\ resp[w].st.enabled)

\* C40: in integration mode, whenever no callback holds the lock and
\* load_current_data is not between its read and its assignment, the list
\* in memory is the list written last to the data file (once one has been
\* written), and its length is the length of the list loaded plus the count
\* presses less the undo presses that found an entry.
C40_MemoryIsFile ==
    (cb = "idle" /\ lcd # "read") =>
        /\ last_written.kind = "json" => current_data = last_written.list
        /\ Len(current_data) = base + added - undone

====
